---------------------------- MODULE Spec2Model ----------------------------
(***************************************************************************)
(* A model of the AutoHome backend.                                        *)
(*                                                                         *)
(*  - the guardrail engine (backend/db/models.py) and the seeded           *)
(*    in-memory database (backend/db/database.py);                         *)
(*  - POST /api/commands (backend/routes/commands.py), the command         *)
(*    scheduler (backend/scheduler/service.py), the command executor       *)
(*    (backend/executor/service.py) and the mock hub client                *)
(*    (backend/mock_ha/client.py);                                         *)
(*  - the scheduler runner (backend/app/services/scheduler_runner.py);     *)
(*  - the JSON state store (backend/app/services/state_store.py) and the   *)
(*    flat-file device API (backend/app/api/devices.py).                   *)
(*                                                                         *)
(* Each part has its own specification over the shared variables; the      *)
(* variables of the other parts stay at their initial values.              *)
(***************************************************************************)
EXTENDS Integers, Sequences, FiniteSets, TLC

\* ------------------------------------------------------------------------
\* Optional values: Python's None is the empty tuple, a present value x is <<x>>.
None == <<>>

Some(x) == <<x>>

IsNone(o) == o = <<>>

Val(o) == o[1]

\* A JSON scalar found under parameters["brightness"]: a number, or a text
\* that is not a number (num = FALSE; val is then unused and 0).
JsonNum(n) == [num |-> TRUE, val |-> n]

JsonText == [num |-> FALSE, val |-> 0]

\* Python's int(x): the number, or ValueError for a non-numeric text.
PyInt(j) == IF j.num THEN [ok |-> TRUE, val |-> j.val] ELSE [ok |-> FALSE, val |-> 0]

Min(a, b) == IF a < b THEN a ELSE b

Max(a, b) == IF a > b THEN a ELSE b

\* ------------------------------------------------------------------------
\* Devices, actions and parameters of the in-memory-database generation.
LIGHT == "living-room-light"

THERMOSTAT == "hallway-thermostat"

SWITCH == "office-switch"

GHOST == "unknown-device"

DeviceIds == {LIGHT, THERMOSTAT, SWITCH}

\* "reboot" stands for any action the mock hub client does not implement.
Actions == {"turn_on", "turn_off", "set_brightness", "set_temperature", "reboot"}

\* parameters.get("brightness"): absent, a number, or a text that is no number.
BrightnessParams == {None, Some(JsonNum(50)), Some(JsonNum(95)), Some(JsonText)}

\* parameters.get("temperature"): absent or a number.
TemperatureParams == {None, Some(23)}

\* Command(device_id=..., action=..., parameters=...): the request's part of a
\* Command; parameters holds at most the keys brightness and temperature.
Command(device_id, action, brightness, temperature) ==
    [device_id |-> device_id, action |-> action,
     brightness |-> brightness, temperature |-> temperature]

\* ------------------------------------------------------------------------
\* Guardrail (backend/db/models.py).  The model declares exactly these fields;
\* pydantic's BaseModel ignores any other keyword given to the constructor.
GuardrailFields ==
    {"id", "allowed_actions", "blocked_actions", "blocked_devices", "max_brightness"}

\* Guardrail(**kwargs): declared fields are taken from kwargs, the rest default
\* to None, undeclared keywords (such as target_devices) are dropped.
Guardrail(kwargs) ==
    [f \in GuardrailFields |-> IF f \in DOMAIN kwargs THEN kwargs[f] ELSE None]

\* Mutation of AllowedActionsViolated: the allow-list is never consulted.
AllowedActionsIgnored(g, command) == FALSE

\* The first check of enforce: an allow-list is set and the action is not on it.
AllowedActionsViolated(g, command) ==
    ~IsNone(g["allowed_actions"]) /\ command.action \notin Val(g["allowed_actions"])

EnforceIgnoringAllowList(g, command, device_id) ==
    IF ~IsNone(g["blocked_actions"]) /\ command.action \in Val(g["blocked_actions"])
    THEN "violation"
    ELSE IF ~IsNone(g["blocked_devices"]) /\ device_id \in Val(g["blocked_devices"])
    THEN "violation"
    ELSE IF ~IsNone(g["max_brightness"]) /\ ~IsNone(command.brightness)
    THEN IF ~PyInt(Val(command.brightness)).ok
         THEN "value_error"
         ELSE IF PyInt(Val(command.brightness)).val > Val(g["max_brightness"])
              THEN "violation"
              ELSE "ok"
    ELSE "ok"

\* Guardrail.enforce(command, device): "ok" when it returns, "violation" when it
\* raises GuardrailViolation, "value_error" when int() of the brightness raises.
Enforce(g, command, device_id) ==
    IF AllowedActionsViolated(g, command)
    THEN "violation"
    ELSE EnforceIgnoringAllowList(g, command, device_id)

\* The loop of queue_command over db.list_guardrails(): the outcome of the first
\* guardrail that does not return, "ok" when all return.
RECURSIVE EnforceAll(_, _, _)
EnforceAll(gs, command, device_id) ==
    IF gs = <<>>
    THEN "ok"
    ELSE LET r == Enforce(Head(gs), command, device_id)
         IN  IF r = "ok" THEN EnforceAll(Tail(gs), command, device_id) ELSE r

\* A command violates a configured guardrail when that guardrail's enforce
\* raises GuardrailViolation for it.
ViolatesSome(gs, command, device_id) ==
    \E i \in 1..Len(gs) : Enforce(gs[i], command, device_id) = "violation"

\* InMemoryDatabase._seed_defaults: the two seeded guardrails, in dict order.
SeededGuardrails ==
    << Guardrail([id |-> "brightness-limit", max_brightness |-> Some(90)]),
       Guardrail([id |-> "thermostat-allowed-actions",
                  allowed_actions |-> Some({"set_temperature"}),
                  blocked_devices |-> Some({THERMOSTAT})]) >>

\* tests/test_guardrail_enforcement.py, _thermostat_guardrail()
ThermostatGuardrailKwargs ==
    [id |-> "thermostat-allowed-actions",
     allowed_actions |-> Some({"set_temperature"}),
     target_devices |-> Some({THERMOSTAT})]


\* ------------------------------------------------------------------------
\* Devices of the in-memory database.  A device's state map holds at most the
\* keys power, brightness, temperature and last_synced.
DeviceState(power, brightness, temperature, last_synced) ==
    [power |-> power, brightness |-> brightness,
     temperature |-> temperature, last_synced |-> last_synced]

\* InMemoryDatabase._seed_defaults: the three seeded devices.
SeededDevices ==
    [d \in DeviceIds |->
        CASE d = LIGHT      -> DeviceState(Some("off"), Some(0), None, FALSE)
          [] d = THERMOSTAT -> DeviceState(Some("on"), None, Some(21), FALSE)
          [] d = SWITCH     -> DeviceState(Some("off"), None, None, FALSE)]

Clamp(n) == Max(0, Min(100, n))

\* The set_brightness branch of MockHomeAssistantClient.apply: the power key
\* keeps its value ("on" only when the key is missing).
ApplySetBrightness(state, command) ==
    LET b == IF IsNone(command.brightness)
             THEN [ok |-> TRUE, val |-> 100]
             ELSE PyInt(Val(command.brightness))
    IN  IF ~b.ok
        THEN [ok |-> FALSE, state |-> state]
        ELSE [ok |-> TRUE,
              state |-> [state EXCEPT
                            !.power = IF IsNone(state.power) THEN Some("on") ELSE state.power,
                            !.brightness = Some(Clamp(b.val)),
                            !.last_synced = TRUE]]

\* MockHomeAssistantClient.apply(device, command): ok with the resulting state
\* map, or not ok when it raises ValueError.
Apply(state, command) ==
    CASE command.action = "turn_on" ->
            IF IsNone(command.brightness)
            THEN [ok |-> TRUE, state |-> [state EXCEPT !.power = Some("on"), !.last_synced = TRUE]]
            ELSE IF ~PyInt(Val(command.brightness)).ok
            THEN [ok |-> FALSE, state |-> state]
            ELSE [ok |-> TRUE,
                  state |-> [state EXCEPT
                                !.power = Some("on"),
                                !.brightness = Some(Clamp(PyInt(Val(command.brightness)).val)),
                                !.last_synced = TRUE]]
      [] command.action = "turn_off" ->
            [ok |-> TRUE, state |-> [state EXCEPT !.power = Some("off"), !.last_synced = TRUE]]
      [] command.action = "set_brightness" -> ApplySetBrightness(state, command)
      [] command.action = "set_temperature" ->
            [ok |-> TRUE,
             state |-> [state EXCEPT
                           !.temperature =
                               IF ~IsNone(command.temperature) THEN command.temperature
                               ELSE IF ~IsNone(state.temperature) THEN state.temperature
                               ELSE Some(21),
                           !.last_synced = TRUE]]
      [] OTHER -> [ok |-> FALSE, state |-> state]

\* A Command object: the request's fields plus the lifecycle fields.  The
\* timestamps started_at and completed_at are kept as set / not set.
NewCommand(request) ==
    [device_id |-> request.device_id, action |-> request.action,
     brightness |-> request.brightness, temperature |-> request.temperature,
     status |-> "pending", started_at |-> FALSE, completed_at |-> FALSE,
     result |-> FALSE, error |-> None]

\* ------------------------------------------------------------------------
\* State.
VARIABLES
    \* Guardrail.enforce called directly, as the unit tests call it
    enfKwargs,      \* keywords given to the Guardrail constructor
    enfCommand,     \* the Command passed to enforce
    enfDevice,      \* the id of the Device passed to enforce
    enfResult,      \* "pending" before the call, then the outcome of enforce
    \* InMemoryDatabase
    devices,        \* _devices: device id -> state map
    commands,       \* _commands: command id -> stored copy (None: no record)
    guardrails,     \* _guardrails: the guardrails in dict order
    logs,           \* _logs: the audit log
    \* CommandScheduler
    queue,          \* _queue: command ids and shutdown sentinels, oldest first
    shutdown,       \* _shutdown: the event is set
    worker,         \* _worker: the referenced task (0: None)
    tasks,          \* every task created for _run: position, command, device copy
    stops,          \* every call of stop(): position and the task it awaits
    \* callers
    cmdObj,         \* the Command objects the route built (shared with the queue)
    reqs,           \* POST /api/commands requests: position, payload, response
    dels,           \* DELETE /api/commands/{id} requests: position, id, copy, response
    putOrder,       \* history: command ids in the order they were put on the queue
    startOrder,     \* history: command ids in the order execute() was entered
    \* the schedule document and the scheduler runner
    clock,          \* the instant of the latest tick (0: none yet)
    schedule,       \* schedule.json: daily, queue, updatedAt
    made,           \* how many rebuilds and queued commands were made (fresh ids)
    execs,          \* history: every call of _execute_command by a tick
    \* the state directory
    files,          \* each document's content on disk
    writers,        \* the writes in progress: position, document, content
    observed,       \* history: what every completed read returned
    \* run_scheduler_loop as a task
    loop,           \* the task: position, why it ended, iteration counts
    stop_event,     \* the asyncio.Event given to the loop is set
    \* POST /chat
    chat,           \* history: what every handled chat request did
    \* functions called on their own
    call,           \* the latest call: function, arguments, result
    \* InMemoryDatabase with the objects its callers hold
    heap,           \* every object made: models and the containers inside them
    table,          \* _devices, _commands, _guardrails: key -> the object stored
    held,           \* the objects callers hold references to
    dbOp,           \* the latest call or mutation, and how many were made
    \* SmartHomeLightManager
    lights,         \* self.lights: room -> state
    lightLog        \* history: every call of control_lights and what it returned

enfVars == <<enfKwargs, enfCommand, enfDevice, enfResult>>

dbVars == <<devices, commands, guardrails, logs>>

schedVars == <<queue, shutdown, worker, tasks, stops>>

callerVars == <<cmdObj, reqs, dels, putOrder, startOrder>>

cmdVars == <<devices, commands, guardrails, logs, queue, shutdown, worker, tasks, stops,
             cmdObj, reqs, dels, putOrder, startOrder>>

runVars == <<clock, schedule, made, execs>>

storeVars == <<files, writers, observed>>

loopVars == <<loop, stop_event>>

chatVars == <<chat>>

pureVars == <<call>>

copyVars == <<heap, table, held, dbOp>>

lightVars == <<lights, lightLog>>

vars == <<enfKwargs, enfCommand, enfDevice, enfResult,
          devices, commands, guardrails, logs, queue, shutdown, worker, tasks, stops,
          cmdObj, reqs, dels, putOrder, startOrder,
          clock, schedule, made, execs,
          files, writers, observed,
          loop, stop_event, chat, call,
          heap, table, held, dbOp, lights, lightLog>>

\* ------------------------------------------------------------------------
\* Guardrail.enforce as the unit tests drive it: build a guardrail from
\* keywords, build a command and a device, call enforce once.
AllowLists == {None, Some({"set_temperature"}), Some({"turn_on", "turn_off"})}

EnforceKwargs ==
    [id : {"thermostat-allowed-actions"},
     allowed_actions : AllowLists,
     blocked_actions : {None, Some({"turn_off"})},
     blocked_devices : {None, Some({THERMOSTAT})},
     target_devices : {None, Some({THERMOSTAT})},
     max_brightness : {None, Some(90)}]

EnforceInit ==
    /\ enfKwargs \in EnforceKwargs
    /\ enfCommand \in {Command(d, a, b, None) :
                        d \in DeviceIds, a \in Actions, b \in BrightnessParams}
    /\ enfDevice = enfCommand.device_id
    /\ enfResult = "pending"

EnforceParked ==
    /\ enfKwargs = ThermostatGuardrailKwargs
    /\ enfCommand = Command(THERMOSTAT, "set_temperature", None, None)
    /\ enfDevice = THERMOSTAT
    /\ enfResult = "parked"

CallEnforce ==
    /\ enfResult = "pending"
    /\ enfResult' = Enforce(Guardrail(enfKwargs), enfCommand, enfDevice)
    /\ UNCHANGED <<enfKwargs, enfCommand, enfDevice>>
    /\ UNCHANGED <<cmdVars, runVars, storeVars, loopVars, chatVars, pureVars, copyVars, lightVars>>

\* ------------------------------------------------------------------------
\* The in-memory-database generation: POST /api/commands, the guardrail
\* routes, the CommandScheduler and the CommandExecutor.
\*
\* Every coroutine is cut at the awaits that may hand control to the event
\* loop: acquiring the database lock (every InMemoryDatabase call), getting
\* from the queue, and awaiting the worker task.  Putting on the unbounded
\* queue and start() never wait.  One action is the code from one such
\* await to the next.

\* Bounds of the model.
MaxCmds == 2

MaxWorkers == 3

MaxStops == 1

MaxGuardrails == 2

MaxDeletes == 1

CmdIds == 1..MaxCmds

WorkerIds == 1..MaxWorkers

StopIds == 1..MaxStops

DeleteIds == 1..MaxDeletes

\* The shutdown sentinel stop() puts on the queue (None in the code).
SENTINEL == 0

\* Payloads of the POST /api/commands requests the model sends.
RequestPayloads ==
    {Command(LIGHT, "set_temperature", None, None),
     Command(THERMOSTAT, "set_temperature", None, None),
     Command(LIGHT, "turn_on", None, None),
     Command(LIGHT, "turn_on", Some(JsonNum(95)), None),
     Command(LIGHT, "turn_on", Some(JsonText), None),
     Command(LIGHT, "reboot", None, None),
     Command(GHOST, "turn_on", None, None)}

\* Keywords of the POST /api/guardrails requests the model sends.
CreatedGuardrails ==
    {[id |-> "created", blocked_actions |-> Some({"reboot"})]}

NoPayload == Command(GHOST, "reboot", None, None)

NoTask == [pc |-> "none", cmd |-> 0, device |-> SeededDevices[LIGHT]]

CmdInit ==
    /\ devices = SeededDevices
    /\ commands = [c \in CmdIds |-> None]
    /\ guardrails = SeededGuardrails
    /\ logs = <<>>
    /\ queue = <<>>
    /\ shutdown = FALSE
    /\ worker = 0
    /\ tasks = [w \in WorkerIds |-> NoTask]
    /\ stops = [s \in StopIds |-> [pc |-> "idle", target |-> 0]]
    /\ cmdObj = [c \in CmdIds |-> NewCommand(NoPayload)]
    /\ reqs = [c \in CmdIds |-> [pc |-> "new", violated |-> FALSE, response |-> 0]]
    /\ dels = [d \in DeleteIds |-> [pc |-> "new", id |-> 0, response |-> 0,
                                    copy |-> NewCommand(NoPayload)]]
    /\ putOrder = <<>>
    /\ startOrder = <<>>

Finished(t) == t.pc \in {"done", "crashed"}

\* Task.done() of the referenced worker
WorkerDone == worker # 0 /\ Finished(tasks[worker])

FreeTasks == {w \in WorkerIds : tasks[w].pc = "none"}

\* CommandScheduler.start(): whether it creates a task
StartCreates == worker = 0 \/ WorkerDone

NewTaskId == CHOOSE w \in FreeTasks : \A v \in FreeTasks : w <= v

\* CommandScheduler.start(), as a step on (shutdown, worker, tasks)
StartEffect ==
    IF StartCreates
    THEN /\ FreeTasks # {}
         /\ shutdown' = FALSE
         /\ worker' = NewTaskId
         /\ tasks' = [tasks EXCEPT ![NewTaskId] = [NoTask EXCEPT !.pc = "new"]]
    ELSE UNCHANGED <<shutdown, worker, tasks>>

\* ------------------------------------------------------------------------
\* queue_command (POST /api/commands)

\* The request arrives; the handler runs to `await db.get_device`.
QcReceive(r) ==
    /\ reqs[r].pc = "new"
    /\ \A q \in CmdIds : q < r => reqs[q].pc # "new"
    /\ \E payload \in RequestPayloads :
          cmdObj' = [cmdObj EXCEPT ![r] = NewCommand(payload)]
    /\ reqs' = [reqs EXCEPT ![r].pc = "getDevice"]
    /\ UNCHANGED <<dbVars, schedVars, dels, putOrder, startOrder>>
    /\ UNCHANGED <<enfVars, runVars, storeVars, loopVars, chatVars, pureVars, copyVars, lightVars>>

\* db.get_device: 404 for an unknown device; else the Command is built and the
\* handler runs to `await db.list_guardrails`.
QcGetDevice(r) ==
    /\ reqs[r].pc = "getDevice"
    /\ IF cmdObj[r].device_id \in DOMAIN devices
       THEN reqs' = [reqs EXCEPT ![r].pc = "listGuardrails"]
       ELSE reqs' = [reqs EXCEPT ![r].pc = "done", ![r].response = 404]
    /\ UNCHANGED <<dbVars, schedVars, cmdObj, dels, putOrder, startOrder>>
    /\ UNCHANGED <<enfVars, runVars, storeVars, loopVars, chatVars, pureVars, copyVars, lightVars>>

\* The HTTP status of the guardrail loop: 400 for GuardrailViolation, 500 for
\* any exception the handler does not catch, 0 when every guardrail returned.
GuardrailStatus(outcome) ==
    CASE outcome = "violation" -> 400
      [] outcome = "value_error" -> 500
      [] OTHER -> 0

\* db.list_guardrails and the enforce loop; an accepted command runs to the
\* `await db.upsert_command` of scheduler.enqueue.
QcEnforce(r) ==
    /\ reqs[r].pc = "listGuardrails"
    /\ LET outcome == EnforceAll(guardrails, cmdObj[r], cmdObj[r].device_id)
           violated == ViolatesSome(guardrails, cmdObj[r], cmdObj[r].device_id)
       IN  IF outcome = "ok"
           THEN reqs' = [reqs EXCEPT ![r].pc = "enqueue", ![r].violated = violated]
           ELSE reqs' = [reqs EXCEPT ![r].pc = "done", ![r].violated = violated,
                                     ![r].response = GuardrailStatus(outcome)]
    /\ UNCHANGED <<dbVars, schedVars, cmdObj, dels, putOrder, startOrder>>
    /\ UNCHANGED <<enfVars, runVars, storeVars, loopVars, chatVars, pureVars, copyVars, lightVars>>

\* scheduler.enqueue (upsert_command, queue.put) and scheduler.start; 202.
QcEnqueueAndStart(r) ==
    /\ reqs[r].pc = "enqueue"
    /\ commands' = [commands EXCEPT ![r] = Some(cmdObj[r])]
    /\ queue' = Append(queue, r)
    /\ putOrder' = Append(putOrder, r)
    /\ StartEffect
    /\ reqs' = [reqs EXCEPT ![r].pc = "done", ![r].response = 202]
    /\ UNCHANGED <<devices, guardrails, logs, stops, cmdObj, dels, startOrder>>
    /\ UNCHANGED <<enfVars, runVars, storeVars, loopVars, chatVars, pureVars, copyVars, lightVars>>

\* ------------------------------------------------------------------------
\* delete_command (DELETE /api/commands/{id})

\* Mutation of CancelledByUser: no completion timestamp is set.
CancelledWithoutTimestamp(command) ==
    [command EXCEPT !.status = "failed", !.error = Some("Command cancelled by user")]

\* The fields delete_command sets on the copy db.get_command returned
CancelledByUser(command) ==
    [command EXCEPT !.status = "failed", !.completed_at = TRUE,
                    !.error = Some("Command cancelled by user")]

\* The request arrives and db.get_command runs: 404 without a record; else
\* the copy is marked, up to `await db.upsert_command`.
DcGetCommand(d, id) ==
    /\ dels[d].pc = "new"
    /\ IF IsNone(commands[id])
       THEN dels' = [dels EXCEPT ![d].pc = "done", ![d].id = id, ![d].response = 404]
       ELSE dels' = [dels EXCEPT ![d].pc = "upsert", ![d].id = id,
                                 ![d].copy = CancelledByUser(Val(commands[id]))]
    /\ UNCHANGED <<dbVars, schedVars, cmdObj, reqs, putOrder, startOrder>>
    /\ UNCHANGED <<enfVars, runVars, storeVars, loopVars, chatVars, pureVars, copyVars, lightVars>>

\* db.upsert_command stores the marked copy; 204.
DcUpsert(d) ==
    /\ dels[d].pc = "upsert"
    /\ commands' = [commands EXCEPT ![dels[d].id] = Some(dels[d].copy)]
    /\ dels' = [dels EXCEPT ![d].pc = "done", ![d].response = 204]
    /\ UNCHANGED <<devices, guardrails, logs, schedVars, cmdObj, reqs, putOrder, startOrder>>
    /\ UNCHANGED <<enfVars, runVars, storeVars, loopVars, chatVars, pureVars, copyVars, lightVars>>

\* ------------------------------------------------------------------------
\* The guardrail routes: DELETE /api/guardrails/{id}, POST /api/guardrails.
RemoveAt(seq, i) == SubSeq(seq, 1, i - 1) \o SubSeq(seq, i + 1, Len(seq))

DeleteGuardrail(i) ==
    /\ i \in 1..Len(guardrails)
    /\ guardrails' = RemoveAt(guardrails, i)
    /\ UNCHANGED <<devices, commands, logs, schedVars, callerVars>>
    /\ UNCHANGED <<enfVars, runVars, storeVars, loopVars, chatVars, pureVars, copyVars, lightVars>>

CreateGuardrail(kwargs) ==
    /\ Len(guardrails) < MaxGuardrails
    /\ \A i \in 1..Len(guardrails) : guardrails[i]["id"] # kwargs["id"]
    /\ guardrails' = Append(guardrails, Guardrail(kwargs))
    /\ UNCHANGED <<devices, commands, logs, schedVars, callerVars>>
    /\ UNCHANGED <<enfVars, runVars, storeVars, loopVars, chatVars, pureVars, copyVars, lightVars>>

\* ------------------------------------------------------------------------
\* The application's lifespan: scheduler.start() at startup, stop() at shutdown.
Start ==
    /\ StartCreates
    /\ StartEffect
    /\ UNCHANGED <<dbVars, queue, stops, callerVars>>
    /\ UNCHANGED <<enfVars, runVars, storeVars, loopVars, chatVars, pureVars, copyVars, lightVars>>

\* stop() up to `await self._worker`: nothing without a worker; else the event
\* is set, the sentinel put, and the task awaited (no wait when it is done).
StopCall(s) ==
    /\ stops[s].pc = "idle"
    /\ IF worker = 0
       THEN /\ stops' = [stops EXCEPT ![s].pc = "done"]
            /\ UNCHANGED <<queue, shutdown, worker>>
       ELSE /\ shutdown' = TRUE
            /\ queue' = Append(queue, SENTINEL)
            /\ IF tasks[worker].pc = "done"
               THEN /\ worker' = 0
                    /\ stops' = [stops EXCEPT ![s].pc = "done"]
               ELSE IF tasks[worker].pc = "crashed"
               THEN /\ UNCHANGED worker
                    /\ stops' = [stops EXCEPT ![s].pc = "raised"]
               ELSE /\ UNCHANGED worker
                    /\ stops' = [stops EXCEPT ![s].pc = "awaiting", ![s].target = worker]
    /\ UNCHANGED <<dbVars, tasks, callerVars>>
    /\ UNCHANGED <<enfVars, runVars, storeVars, loopVars, chatVars, pureVars, copyVars, lightVars>>

\* The awaited task has finished: stop() resumes and clears _worker (the
\* task's exception, if it ended with one, propagates instead).
StopResume(s) ==
    /\ stops[s].pc = "awaiting"
    /\ Finished(tasks[stops[s].target])
    /\ IF tasks[stops[s].target].pc = "done"
       THEN /\ worker' = 0
            /\ stops' = [stops EXCEPT ![s].pc = "done"]
       ELSE /\ UNCHANGED worker
            /\ stops' = [stops EXCEPT ![s].pc = "raised"]
    /\ UNCHANGED <<dbVars, queue, shutdown, tasks, callerVars>>
    /\ UNCHANGED <<enfVars, runVars, storeVars, loopVars, chatVars, pureVars, copyVars, lightVars>>

\* ------------------------------------------------------------------------
\* CommandScheduler._run and CommandExecutor.execute

\* The head of the loop: `while not self._shutdown.is_set()`, then queue.get().
LoopHead == IF shutdown THEN "done" ELSE "get"

\* The new task runs for the first time.
WorkerRun(w) ==
    /\ tasks[w].pc = "new"
    /\ tasks' = [tasks EXCEPT ![w].pc = LoopHead]
    /\ UNCHANGED <<dbVars, queue, shutdown, worker, stops, callerVars>>
    /\ UNCHANGED <<enfVars, runVars, storeVars, loopVars, chatVars, pureVars, copyVars, lightVars>>

\* queue.get() returns: the sentinel ends the loop; a command runs to
\* `await db.get_device`.
WorkerGet(w) ==
    /\ tasks[w].pc = "get"
    /\ queue # <<>>
    /\ queue' = Tail(queue)
    /\ IF Head(queue) = SENTINEL
       THEN tasks' = [tasks EXCEPT ![w].pc = "done"]
       ELSE tasks' = [tasks EXCEPT ![w].pc = "getDevice", ![w].cmd = Head(queue)]
    /\ UNCHANGED <<dbVars, shutdown, worker, stops, callerVars>>
    /\ UNCHANGED <<enfVars, runVars, storeVars, loopVars, chatVars, pureVars, copyVars, lightVars>>

\* db.get_device (RecordNotFoundError ends the task); execute() is entered:
\* started_at and IN_PROGRESS are set on the Command object, up to the first
\* `await db.upsert_command`.
WorkerGetDevice(w) ==
    /\ tasks[w].pc = "getDevice"
    /\ LET c == tasks[w].cmd
       IN  IF cmdObj[c].device_id \in DOMAIN devices
           THEN /\ tasks' = [tasks EXCEPT ![w].pc = "markUpsert",
                                          ![w].device = devices[cmdObj[c].device_id]]
                /\ cmdObj' = [cmdObj EXCEPT ![c].started_at = TRUE,
                                            ![c].status = "in_progress"]
                /\ startOrder' = Append(startOrder, c)
           ELSE /\ tasks' = [tasks EXCEPT ![w].pc = "crashed"]
                /\ UNCHANGED <<cmdObj, startOrder>>
    /\ UNCHANGED <<dbVars, queue, shutdown, worker, stops, reqs, dels, putOrder>>
    /\ UNCHANGED <<enfVars, runVars, storeVars, loopVars, chatVars, pureVars, copyVars, lightVars>>

\* Mutation of MarkFailed: the status is left as it was.
MarkFailedKeepingStatus(command) ==
    [command EXCEPT !.completed_at = TRUE, !.error = Some("ValueError")]

\* The except branch of execute(): the Command object becomes FAILED.
MarkFailed(command) ==
    [command EXCEPT !.status = "failed", !.completed_at = TRUE,
                    !.error = Some("ValueError")]

\* The end of the try branch of execute(): the Command object becomes COMPLETED.
MarkCompleted(command) ==
    [command EXCEPT !.status = "completed", !.completed_at = TRUE, !.result = TRUE]

\* upsert_command stores IN_PROGRESS; ha_client.apply runs; on success the
\* device copy is updated, up to `await db.upsert_device`; on an exception the
\* command is marked FAILED, up to the final `await db.upsert_command`.
WorkerMark(w) ==
    /\ tasks[w].pc = "markUpsert"
    /\ LET c == tasks[w].cmd
           applied == Apply(tasks[w].device, cmdObj[c])
       IN  /\ commands' = [commands EXCEPT ![c] = Some(cmdObj[c])]
           /\ IF applied.ok
              THEN /\ tasks' = [tasks EXCEPT ![w].pc = "deviceUpsert",
                                             ![w].device = applied.state]
                   /\ UNCHANGED cmdObj
              ELSE /\ tasks' = [tasks EXCEPT ![w].pc = "finalUpsert"]
                   /\ cmdObj' = [cmdObj EXCEPT ![c] = MarkFailed(cmdObj[c])]
    /\ UNCHANGED <<devices, guardrails, logs, queue, shutdown, worker, stops,
                   reqs, dels, putOrder, startOrder>>
    /\ UNCHANGED <<enfVars, runVars, storeVars, loopVars, chatVars, pureVars, copyVars, lightVars>>

\* db.upsert_device stores the device copy; the command is marked COMPLETED,
\* up to the final `await db.upsert_command`.
WorkerDeviceUpsert(w) ==
    /\ tasks[w].pc = "deviceUpsert"
    /\ LET c == tasks[w].cmd
       IN  /\ devices' = [devices EXCEPT ![cmdObj[c].device_id] = tasks[w].device]
           /\ cmdObj' = [cmdObj EXCEPT ![c] = MarkCompleted(cmdObj[c])]
    /\ tasks' = [tasks EXCEPT ![w].pc = "finalUpsert"]
    /\ UNCHANGED <<commands, guardrails, logs, queue, shutdown, worker, stops,
                   reqs, dels, putOrder, startOrder>>
    /\ UNCHANGED <<enfVars, runVars, storeVars, loopVars, chatVars, pureVars, copyVars, lightVars>>

\* The final db.upsert_command, up to `await db.add_log_entries`.
WorkerFinal(w) ==
    /\ tasks[w].pc = "finalUpsert"
    /\ commands' = [commands EXCEPT ![tasks[w].cmd] = Some(cmdObj[tasks[w].cmd])]
    /\ tasks' = [tasks EXCEPT ![w].pc = "logAppend"]
    /\ UNCHANGED <<devices, guardrails, logs, queue, shutdown, worker, stops, callerVars>>
    /\ UNCHANGED <<enfVars, runVars, storeVars, loopVars, chatVars, pureVars, copyVars, lightVars>>

\* db.add_log_entries; execute() returns, task_done(), and the loop head.
WorkerLog(w) ==
    /\ tasks[w].pc = "logAppend"
    /\ logs' = Append(logs, [command_id |-> tasks[w].cmd,
                             failed |-> cmdObj[tasks[w].cmd].status = "failed"])
    /\ tasks' = [tasks EXCEPT ![w].pc = LoopHead, ![w].cmd = 0]
    /\ UNCHANGED <<devices, commands, guardrails, queue, shutdown, worker, stops, callerVars>>
    /\ UNCHANGED <<enfVars, runVars, storeVars, loopVars, chatVars, pureVars, copyVars, lightVars>>

CmdNext ==
    \/ \E r \in CmdIds : QcReceive(r)
    \/ \E r \in CmdIds : QcGetDevice(r)
    \/ \E r \in CmdIds : QcEnforce(r)
    \/ \E r \in CmdIds : QcEnqueueAndStart(r)
    \/ \E i \in 1..MaxGuardrails : DeleteGuardrail(i)
    \/ \E k \in CreatedGuardrails : CreateGuardrail(k)
    \/ Start
    \/ \E s \in StopIds : StopCall(s)
    \/ \E s \in StopIds : StopResume(s)
    \/ \E w \in WorkerIds : WorkerRun(w)
    \/ \E w \in WorkerIds : WorkerGet(w)
    \/ \E w \in WorkerIds : WorkerGetDevice(w)
    \/ \E w \in WorkerIds : WorkerMark(w)
    \/ \E w \in WorkerIds : WorkerDeviceUpsert(w)
    \/ \E w \in WorkerIds : WorkerFinal(w)
    \/ \E w \in WorkerIds : WorkerLog(w)

\* The same generation while the application is up (no shutdown), with the
\* DELETE /api/commands/{id} requests.
CancelNext ==
    \/ \E r \in CmdIds : QcReceive(r)
    \/ \E r \in CmdIds : QcGetDevice(r)
    \/ \E r \in CmdIds : QcEnforce(r)
    \/ \E r \in CmdIds : QcEnqueueAndStart(r)
    \/ \E d \in DeleteIds : \E id \in CmdIds : DcGetCommand(d, id)
    \/ \E d \in DeleteIds : DcUpsert(d)
    \/ \E i \in 1..MaxGuardrails : DeleteGuardrail(i)
    \/ \E k \in CreatedGuardrails : CreateGuardrail(k)
    \/ Start
    \/ \E w \in WorkerIds : WorkerRun(w)
    \/ \E w \in WorkerIds : WorkerGet(w)
    \/ \E w \in WorkerIds : WorkerGetDevice(w)
    \/ \E w \in WorkerIds : WorkerMark(w)
    \/ \E w \in WorkerIds : WorkerDeviceUpsert(w)
    \/ \E w \in WorkerIds : WorkerFinal(w)
    \/ \E w \in WorkerIds : WorkerLog(w)

\* ------------------------------------------------------------------------
\* The hub-integrated generation: the schedule document, the schedule
\* service and the scheduler runner.
\*
\* Instants are whole seconds since midnight of day 0 (naive UTC datetimes).
\* Every HTTP handler and _process_schedule run without awaiting, so each is
\* one action.  The clock is the instant of the latest tick; a request
\* between two ticks reads it as utcnow().

\* Bounds of the model.
MaxDays == 1

MaxRebuilds == 1

MaxQueued == 1

\* timedelta(days=1), timedelta(minutes=5), timedelta(seconds=1), in seconds
Day == 86400

RetryDelay == 300

OneSecond == 1

\* The sleep between two iterations of the loop, in seconds
CheckIntervalSeconds == 30

\* The profiles the model saves: bedTime, wakeTime and the lead the thermostat
\* helper computes, in minutes of the day.
Profiles == {[bed |-> 1350, lead |-> 30, wake |-> 420],
             [bed |-> 1320, lead |-> 0, wake |-> 420]}

\* The run time around whose occurrences the model lets things happen
RunMinutes == {1320}

\* Offsets, in seconds, from an occurrence of a run time at which the model
\* lets something happen.
Offsets == {0 - OneSecond, 0, CheckIntervalSeconds, RetryDelay + CheckIntervalSeconds}

Instants ==
    {d * Day + 60 * m + o : d \in 0..MaxDays, m \in RunMinutes, o \in Offsets}

\* A stored string: an ISO datetime or an "HH:MM" clock time.
IsoFormat(t) == [fmt |-> "iso", val |-> t]

TimeToString(m) == [fmt |-> "HH:MM", val |-> m]

\* _parse_iso_datetime(value): None for a missing value and for a string
\* datetime.fromisoformat rejects.
ParseIsoDatetime(value) ==
    IF IsNone(value) THEN None
    ELSE IF Val(value).fmt = "iso" THEN Some(Val(value).val)
    ELSE None

\* _subtract_minutes(target, minutes), wrapping to the previous day
SubtractMinutes(target, minutes) == (target - minutes) % 1440

\* Mutation of NextDailyOccurrence: the candidate is never moved to the next day.
NextDailyOccurrenceSameDay(command, reference) ==
    (reference - (reference % Day)) + 60 * command.run_time.val

\* Mutation of NextDailyOccurrence: the candidate is moved to the next day
\* only when it is strictly before the reference.
NextDailyOccurrenceOrNow(command, reference) ==
    LET scheduled == IF command.run_time.fmt = "HH:MM"
                     THEN command.run_time.val
                     ELSE (reference % Day) \div 60
        candidate == (reference - (reference % Day)) + 60 * scheduled
    IN  IF candidate < reference THEN candidate + Day ELSE candidate

\* _next_daily_occurrence(command, reference)
NextDailyOccurrence(command, reference) ==
    LET scheduled == IF command.run_time.fmt = "HH:MM"
                     THEN command.run_time.val
                     ELSE (reference % Day) \div 60
        candidate == (reference - (reference % Day)) + 60 * scheduled
    IN  IF candidate <= reference THEN candidate + Day ELSE candidate

\* _make_command: a ScheduledCommand as jsonable_encoder stores it
MakeCommand(id, category, run_time, next_run) ==
    [id |-> id, category |-> category, run_time |-> run_time,
     next_run_at |-> IF IsNone(next_run) THEN None ELSE Some(IsoFormat(Val(next_run))),
     last_run_at |-> None]

EmptySchedule == [daily |-> <<>>, queue |-> <<>>, updatedAt |-> None]

\* ---- one entry of the daily loop of _process_schedule
DailyNextRun(entry, now) ==
    IF IsNone(ParseIsoDatetime(entry.next_run_at))
    THEN NextDailyOccurrence(entry, now)
    ELSE Val(ParseIsoDatetime(entry.next_run_at))

\* Mutation of DailyChanged: `changed` is set for every daily entry looked at.
DailyChangedAlways(entry, now) == TRUE

DailyChanged(entry, now) ==
    IsNone(ParseIsoDatetime(entry.next_run_at)) \/ DailyNextRun(entry, now) <= now

ProcessDaily(entry, now, ok) ==
    IF DailyNextRun(entry, now) <= now
    THEN IF ok
         THEN [entry EXCEPT
                  !.last_run_at = Some(IsoFormat(now)),
                  !.next_run_at = Some(IsoFormat(NextDailyOccurrence(entry, now + OneSecond)))]
         ELSE [entry EXCEPT !.next_run_at = Some(IsoFormat(now + RetryDelay))]
    ELSE [entry EXCEPT !.next_run_at = Some(IsoFormat(DailyNextRun(entry, now)))]

\* ---- one entry of the queue loop of _process_schedule
QueueParsed(entry) ==
    IF ~IsNone(ParseIsoDatetime(entry.next_run_at))
    THEN ParseIsoDatetime(entry.next_run_at)
    ELSE ParseIsoDatetime(Some(entry.run_time))

QueueNextRun(entry, now) ==
    IF IsNone(QueueParsed(entry)) THEN now ELSE Val(QueueParsed(entry))

QueueChanged(entry, now) ==
    IsNone(QueueParsed(entry)) \/ QueueNextRun(entry, now) <= now

\* Mutation of ProcessQueue: a failed execution leaves next_run_at alone.
ProcessQueueNoRetry(entry, now, ok) ==
    IF IsNone(QueueParsed(entry))
    THEN [entry EXCEPT !.next_run_at = Some(IsoFormat(now))]
    ELSE IF QueueNextRun(entry, now) <= now /\ ok
    THEN [entry EXCEPT !.last_run_at = Some(IsoFormat(now))]
    ELSE entry

ProcessQueue(entry, now, ok) ==
    LET seen == IF IsNone(QueueParsed(entry))
                THEN [entry EXCEPT !.next_run_at = Some(IsoFormat(now))]
                ELSE entry
    IN  IF QueueNextRun(entry, now) <= now
        THEN IF ok
             THEN [seen EXCEPT !.last_run_at = Some(IsoFormat(now))]
             ELSE [seen EXCEPT !.next_run_at = Some(IsoFormat(now + RetryDelay))]
        ELSE seen

\* The ids the queue loop collects in queue_ids_to_remove
QueueIdsToRemove(items, now, oks) ==
    {items[i].id : i \in {j \in 1..Len(items) :
                            QueueNextRun(items[j], now) <= now /\ items[j].id \in oks}}

\* [item for item in queue if str(item.get("id")) not in queue_ids_to_remove]
RECURSIVE Without(_, _)
Without(items, ids) ==
    IF items = <<>> THEN <<>>
    ELSE IF Head(items).id \in ids THEN Without(Tail(items), ids)
    ELSE <<Head(items)>> \o Without(Tail(items), ids)

\* The record of one call of _execute_command: which entry, when, the
\* outcome, and the next_run_at the tick then wrote on the entry.
Execution(entry, now, ok, after) ==
    [id |-> entry.id, category |-> entry.category, run_time |-> entry.run_time,
     at |-> now, ok |-> ok, next |-> ParseIsoDatetime(after.next_run_at)]

\* _process_schedule(now), given the ids whose execution succeeds: the
\* schedule to persist, whether it is persisted, and the executions made.
ProcessSchedule(doc, now, oks) ==
    LET dailyOut == [i \in 1..Len(doc.daily) |->
                     ProcessDaily(doc.daily[i], now, doc.daily[i].id \in oks)]
        queueOut == [i \in 1..Len(doc.queue) |->
                     ProcessQueue(doc.queue[i], now, doc.queue[i].id \in oks)]
        remove == QueueIdsToRemove(doc.queue, now, oks)
        changed == \/ \E i \in 1..Len(doc.daily) : DailyChanged(doc.daily[i], now)
                   \/ \E i \in 1..Len(doc.queue) : QueueChanged(doc.queue[i], now)
    IN  [changed |-> changed \/ remove # {},
         schedule |-> [daily |-> dailyOut, queue |-> Without(queueOut, remove),
                       updatedAt |-> Some(IsoFormat(now))],
         executions |->
            {Execution(doc.daily[i], now, doc.daily[i].id \in oks, dailyOut[i]) :
                i \in {j \in 1..Len(doc.daily) :
                          DailyNextRun(doc.daily[j], now) <= now}}
            \cup
            {Execution(doc.queue[i], now, doc.queue[i].id \in oks, queueOut[i]) :
                i \in {j \in 1..Len(doc.queue) :
                          QueueNextRun(doc.queue[j], now) <= now}}]

\* ------------------------------------------------------------------------
RunInit ==
    /\ clock = 0
    /\ schedule = EmptySchedule
    /\ made = [rebuilds |-> 0, queued |-> 0]
    /\ execs = {}

\* uuid4().hex: an id no entry has had
FreshId == 2 * made.rebuilds + made.queued + 1

\* Mutation of StoreSchedule: the queue argument is left out of the call, so
\* its default (no queue) is stored.
StoreScheduleDailyOnly(dailyItems, queueItems, now) ==
    [daily |-> dailyItems, queue |-> <<>>, updatedAt |-> Some(IsoFormat(now))]

\* _store_schedule(daily, queue): the document it saves.  The queue items
\* come from the loaded document and are JSON already, so jsonable_encoder
\* returns them as they are; `queue or []` keeps an empty list empty.
StoreSchedule(dailyItems, queueItems, now) ==
    [daily |-> dailyItems, queue |-> queueItems, updatedAt |-> Some(IsoFormat(now))]

\* Saving the profile: rebuild_daily_schedule(profile) and _store_schedule.
RebuildDailySchedule(now, profile) ==
    /\ made.rebuilds < MaxRebuilds
    /\ now = clock
    /\ LET start_time == SubtractMinutes(profile.bed, profile.lead)
           bedtime_command ==
               MakeCommand(FreshId, "daily", TimeToString(start_time), None)
           morning_command ==
               MakeCommand(FreshId + 1, "daily", TimeToString(profile.wake), None)
           queue_items == schedule.queue
       IN  schedule' = StoreSchedule(<<bedtime_command, morning_command>>, queue_items, now)
    /\ made' = [made EXCEPT !.rebuilds = @ + 1]
    /\ UNCHANGED <<clock, execs>>
    /\ UNCHANGED <<enfVars, cmdVars, storeVars, loopVars, chatVars, pureVars, copyVars, lightVars>>

\* A chat message with a device intent: queue_from_intent(summary, intent)
\* with the intent's runAt (None: absent), then append_queue_command.
AppendQueueCommand(now, runAt) ==
    /\ made.queued < MaxQueued
    /\ now = clock
    /\ LET scheduled_run == IF IsNone(runAt) THEN now ELSE Val(runAt)
           command == MakeCommand(FreshId, "queue", IsoFormat(scheduled_run),
                                  Some(scheduled_run))
       IN  schedule' = [daily |-> schedule.daily,
                        queue |-> Append(schedule.queue, command),
                        updatedAt |-> Some(IsoFormat(now))]
    /\ made' = [made EXCEPT !.queued = @ + 1]
    /\ UNCHANGED <<clock, execs>>
    /\ UNCHANGED <<enfVars, cmdVars, storeVars, loopVars, chatVars, pureVars, copyVars, lightVars>>

\* The ids of the entries a tick at `now` executes
DueIds(now) ==
    {schedule.daily[i].id : i \in {j \in 1..Len(schedule.daily) :
                                      DailyNextRun(schedule.daily[j], now) <= now}}
    \cup
    {schedule.queue[i].id : i \in {j \in 1..Len(schedule.queue) :
                                      QueueNextRun(schedule.queue[j], now) <= now}}

\* _process_schedule(now) as a step on the schedule document; oks are the
\* entries whose execution the device service reports successful.
ProcessScheduleAt(now) ==
    /\ now \in Instants
    /\ now > clock
    /\ \E oks \in SUBSET DueIds(now) :
          LET done == ProcessSchedule(schedule, now, oks)
          IN  /\ schedule' = IF done.changed THEN done.schedule ELSE schedule
              /\ execs' = execs \cup done.executions
    /\ clock' = now
    /\ UNCHANGED made

\* One iteration of run_scheduler_loop: now = utcnow(), _process_schedule(now).
Tick(now) ==
    /\ ProcessScheduleAt(now)
    /\ UNCHANGED <<enfVars, cmdVars, storeVars, loopVars, chatVars, pureVars, copyVars, lightVars>>

RunNext ==
    \/ \E profile \in Profiles : RebuildDailySchedule(clock, profile)
    \/ \E runAt \in {None} \cup {Some(t) : t \in Instants} :
          AppendQueueCommand(clock, runAt)
    \/ \E now \in Instants : Tick(now)

\* ------------------------------------------------------------------------
\* The state directory: the JSON documents on disk, the code that writes
\* them and a reader.  A writer and a reader run in different threads or
\* processes, so a read can fall between any two file operations of a write.

\* Bounds of the model.
MaxWriters == 2

MaxVersions == 2

WriterIds == 1..MaxWriters

Documents == {"devices", "schedule"}

\* What a file holds: which version of the document, and how much of it.
Content(ver, bytes) == [ver |-> ver, bytes |-> bytes]

NoWrite == [pc |-> "idle", doc |-> "devices", ver |-> 0, tmp |-> "none"]

StoreInit ==
    /\ files = [d \in Documents |-> Content(0, "complete")]
    /\ writers = [w \in WriterIds |-> NoWrite]
    /\ observed = [doc |-> "devices", ver |-> 0, bytes |-> "complete", during |-> FALSE]

\* The content a new write carries: a version no file or writer has had
Versions == {files[d].ver : d \in Documents} \cup {writers[w].ver : w \in WriterIds}

NewVersion == (CHOOSE v \in Versions : \A u \in Versions : u <= v) + 1

Writing(doc) == \E w \in WriterIds : writers[w].pc # "idle" /\ writers[w].doc = doc

\* StateStore._write_json(path, data): NamedTemporaryFile in the same
\* directory is created
WriteJsonOpen(w, doc) ==
    /\ writers[w].pc = "idle"
    /\ NewVersion <= MaxVersions
    /\ writers' = [writers EXCEPT ![w] =
                      [pc |-> "tmpOpen", doc |-> doc, ver |-> NewVersion, tmp |-> "empty"]]
    /\ UNCHANGED <<files, observed>>
    /\ UNCHANGED <<enfVars, cmdVars, runVars, loopVars, chatVars, pureVars, copyVars, lightVars>>

\* json.dump(data, tmp), flush, fsync and the close of the with block
WriteJsonDump(w) ==
    /\ writers[w].pc = "tmpOpen"
    /\ writers' = [writers EXCEPT ![w].pc = "tmpClosed", ![w].tmp = "complete"]
    /\ UNCHANGED <<files, observed>>
    /\ UNCHANGED <<enfVars, cmdVars, runVars, loopVars, chatVars, pureVars, copyVars, lightVars>>

\* os.replace(tmp_path, path)
WriteJsonReplace(w) ==
    /\ writers[w].pc = "tmpClosed"
    /\ files' = [files EXCEPT ![writers[w].doc] = Content(writers[w].ver, writers[w].tmp)]
    /\ writers' = [writers EXCEPT ![w].pc = "idle", ![w].tmp = "none"]
    /\ UNCHANGED observed
    /\ UNCHANGED <<enfVars, cmdVars, runVars, loopVars, chatVars, pureVars, copyVars, lightVars>>

\* _write_device_state(payload): DEVICES_PATH.open("w") truncates the file
WriteDeviceStateOpen(w) ==
    /\ writers[w].pc = "idle"
    /\ NewVersion <= MaxVersions
    /\ writers' = [writers EXCEPT ![w] =
                      [pc |-> "opened", doc |-> "devices", ver |-> NewVersion, tmp |-> "none"]]
    /\ files' = [files EXCEPT !["devices"] = Content(NewVersion, "empty")]
    /\ UNCHANGED observed
    /\ UNCHANGED <<enfVars, cmdVars, runVars, loopVars, chatVars, pureVars, copyVars, lightVars>>

\* json.dump(payload, handle): the buffer may reach the file in pieces
WriteDeviceStateDump(w, flushed) ==
    /\ writers[w].pc = "opened"
    /\ writers' = [writers EXCEPT ![w].pc = "dumped"]
    /\ files' = [files EXCEPT !["devices"] =
                    IF flushed THEN Content(writers[w].ver, "partial") ELSE @]
    /\ UNCHANGED observed
    /\ UNCHANGED <<enfVars, cmdVars, runVars, loopVars, chatVars, pureVars, copyVars, lightVars>>

\* The close of the with block flushes the rest
WriteDeviceStateClose(w) ==
    /\ writers[w].pc = "dumped"
    /\ files' = [files EXCEPT !["devices"] = Content(writers[w].ver, "complete")]
    /\ writers' = [writers EXCEPT ![w].pc = "idle"]
    /\ UNCHANGED observed
    /\ UNCHANGED <<enfVars, cmdVars, runVars, loopVars, chatVars, pureVars, copyVars, lightVars>>

\* StateStore._read_json(path) / _read_device_state(): the whole file is
\* read as it is at that moment.
ReadJson(doc) ==
    /\ observed' = [doc |-> doc, ver |-> files[doc].ver, bytes |-> files[doc].bytes,
                    during |-> Writing(doc)]
    /\ UNCHANGED <<files, writers>>
    /\ UNCHANGED <<enfVars, cmdVars, runVars, loopVars, chatVars, pureVars, copyVars, lightVars>>

StoreNext ==
    \/ \E w \in WriterIds, doc \in Documents : WriteJsonOpen(w, doc)
    \/ \E w \in WriterIds : WriteJsonDump(w)
    \/ \E w \in WriterIds : WriteJsonReplace(w)
    \/ \E w \in WriterIds : WriteDeviceStateOpen(w)
    \/ \E w \in WriterIds, flushed \in BOOLEAN : WriteDeviceStateDump(w, flushed)
    \/ \E w \in WriterIds : WriteDeviceStateClose(w)
    \/ \E doc \in Documents : ReadJson(doc)

\* ------------------------------------------------------------------------
\* run_scheduler_loop as a task: its iterations, the exceptions an iteration
\* raises, the stop event and cancellation.

\* Bounds of the model.
MaxEdits == 1

\* An item of the daily list that is not a JSON object (schedule.json edited
\* by hand): entry.get raises AttributeError.
NotAnObject ==
    [id |-> 0, category |-> "malformed", run_time |-> TimeToString(0),
     next_run_at |-> None, last_run_at |-> None]

LoopInit ==
    /\ loop = [pc |-> "created", cancel |-> FALSE, raised |-> 0, last |-> "none",
               edits |-> 0]
    /\ stop_event = FALSE

\* The task is alive: created, or suspended in asyncio.sleep
Alive == loop.pc \in {"created", "sleeping"}

\* _process_schedule raises on its first daily entry
ProcessScheduleRaises(doc) == doc.daily # <<>> /\ Head(doc.daily) = NotAnObject

\* Mutation of AfterIteration: an exception of the iteration leaves the loop.
AfterIterationPropagating(raised, stopSet) ==
    IF raised THEN "crashed" ELSE IF stopSet THEN "returned" ELSE "sleeping"

\* Where the loop is after the body of an iteration: the exception, if any,
\* was logged; a set stop_event breaks the loop; else asyncio.sleep.
AfterIteration(raised, stopSet) ==
    IF stopSet THEN "returned" ELSE "sleeping"

\* One iteration.  load_schedule may fail (readFails); a malformed first
\* entry raises before anything is executed; else the schedule is processed.
LoopIteration(now) ==
    /\ Alive
    /\ ~loop.cancel
    /\ \E readFails \in BOOLEAN :
          LET raised == readFails \/ ProcessScheduleRaises(schedule)
          IN  /\ IF raised
                 THEN /\ now \in Instants
                      /\ now > clock
                      /\ clock' = now
                      /\ UNCHANGED <<schedule, made, execs>>
                 ELSE ProcessScheduleAt(now)
              /\ loop' = [loop EXCEPT
                             !.pc = AfterIteration(raised, stop_event),
                             !.raised = IF raised THEN Min(@ + 1, 2) ELSE @,
                             !.last = IF raised THEN "raised" ELSE "ok"]
    /\ UNCHANGED stop_event
    /\ UNCHANGED <<enfVars, cmdVars, storeVars, chatVars, pureVars, copyVars, lightVars>>

\* stop_event.set() by the owner of the loop
SetStopEvent ==
    /\ ~stop_event
    /\ stop_event' = TRUE
    /\ UNCHANGED loop
    /\ UNCHANGED <<enfVars, cmdVars, runVars, storeVars, chatVars, pureVars, copyVars, lightVars>>

\* task.cancel() (the application's shutdown handler)
CancelTask ==
    /\ Alive
    /\ ~loop.cancel
    /\ loop' = [loop EXCEPT !.cancel = TRUE]
    /\ UNCHANGED stop_event
    /\ UNCHANGED <<enfVars, cmdVars, runVars, storeVars, chatVars, pureVars, copyVars, lightVars>>

\* CancelledError is thrown into the task at its await and re-raised.
LoopCancelled ==
    /\ Alive
    /\ loop.cancel
    /\ loop' = [loop EXCEPT !.pc = "cancelled"]
    /\ UNCHANGED stop_event
    /\ UNCHANGED <<enfVars, cmdVars, runVars, storeVars, chatVars, pureVars, copyVars, lightVars>>

\* schedule.json is edited by hand: a malformed item is put first in daily.
CorruptSchedule ==
    /\ loop.edits < MaxEdits
    /\ ~ProcessScheduleRaises(schedule)
    /\ schedule' = [schedule EXCEPT !.daily = <<NotAnObject>> \o @]
    /\ loop' = [loop EXCEPT !.edits = @ + 1]
    /\ UNCHANGED <<clock, made, execs, stop_event>>
    /\ UNCHANGED <<enfVars, cmdVars, storeVars, chatVars, pureVars, copyVars, lightVars>>

\* The malformed item is removed again by hand.
RepairSchedule ==
    /\ ProcessScheduleRaises(schedule)
    /\ schedule' = [schedule EXCEPT !.daily = Tail(@)]
    /\ UNCHANGED <<clock, made, execs, loop, stop_event>>
    /\ UNCHANGED <<enfVars, cmdVars, storeVars, chatVars, pureVars, copyVars, lightVars>>

LoopNext ==
    \/ \E now \in Instants : LoopIteration(now)
    \/ SetStopEvent
    \/ CancelTask
    \/ LoopCancelled
    \/ CorruptSchedule
    \/ RepairSchedule
    \/ \E runAt \in {None} \cup {Some(t) : t \in Instants} :
          AppendQueueCommand(clock, runAt)

\* ------------------------------------------------------------------------
\* POST /chat of app/api/chat.py: the intent parser, queue_from_intent and
\* the choice between executing now and appending to the schedule queue.
\* The chat history the handler also saves is left out.

\* Bounds of the model.
MaxChats == 2

\* The host's local time minus UTC, in seconds
HostOffsets == {0 - 5 * 3600, 0, 2 * 3600}

\* Entity ids: one the alias table knows, the parser's fallback, and the
\* thermostat the parser hard-codes.
KnownEntity == "light.living_room"

UNKNOWN == "unknown"

ThermostatHall == "climate.thermostat_hall"

\* A chat message, as what the parser's patterns find in its text: which
\* branch of _parse_intent it takes, whether an alias of a known entity is in
\* it, the number before "%", the number before "degrees", and the time
\* phrase `at H[:MM] am|pm` (None: no such phrase).
Message(kind, alias, percent, degrees, phrase) ==
    [kind |-> kind, alias |-> alias, percent |-> percent, degrees |-> degrees,
     phrase |-> phrase]

TimePhrase(hour, minute, period) == [hour |-> hour, minute |-> minute, period |-> period]

Messages ==
    {Message("turn on", TRUE, 50, 72, None),
     Message("turn on", TRUE, 50, 72, Some(TimePhrase(6, 0, "pm"))),
     Message("turn off", TRUE, 50, 72, Some(TimePhrase(11, 30, "pm"))),
     Message("turn on", FALSE, 50, 72, None),
     Message("set %", TRUE, 40, 72, Some(TimePhrase(12, 0, "am"))),
     Message("set %", FALSE, 0, 72, None),
     Message("temperature", FALSE, 50, 70, None),
     Message("other", FALSE, 50, 72, None)}

\* _extract_scheduled_time(raw_text), with now_local = datetime.now()
ExtractScheduledTime(phrase, now_local) ==
    IF IsNone(phrase) THEN None
    ELSE LET p == Val(phrase)
             hour == IF p.period = "pm" /\ p.hour # 12 THEN p.hour + 12
                     ELSE IF p.period = "am" /\ p.hour = 12 THEN 0
                     ELSE p.hour
             scheduled == (now_local - (now_local % Day)) + 3600 * hour + 60 * p.minute
         IN  Some(IF scheduled <= now_local THEN scheduled + Day ELSE scheduled)

\* _extract_device(text): the matched entity id, or "unknown"
ExtractDevice(msg) == IF msg.alias THEN KnownEntity ELSE UNKNOWN

\* A ChatIntent: the fields queue_from_intent reads
ChatIntent(type, device, state, level, temperature, runAt) ==
    [type |-> type, device |-> device, state |-> state, level |-> level,
     temperature |-> temperature, runAt |-> runAt]

\* _parse_intent(text)
ParseIntent(msg, now_local) ==
    LET scheduled_time == ExtractScheduledTime(msg.phrase, now_local)
        runAt == IF IsNone(scheduled_time) THEN None
                 ELSE Some(IsoFormat(Val(scheduled_time)))
    IN  CASE msg.kind \in {"turn on", "turn off"} ->
                ChatIntent("ToggleDevice", Some(ExtractDevice(msg)),
                           Some(msg.kind = "turn on"), None, None, runAt)
          [] msg.kind = "set %" ->
                ChatIntent("SetLevel", Some(ExtractDevice(msg)), None,
                           Some(msg.percent), None, runAt)
          [] msg.kind = "temperature" ->
                ChatIntent("SetLevel", Some(ThermostatHall), None, None,
                           Some(msg.degrees), runAt)
          [] OTHER -> ChatIntent("QueryStatus", None, None, None, None, None)

\* Python's truth value of an optional number: None and 0 are false
Truthy(number) == ~IsNone(number) /\ Val(number) # 0

\* datetime.fromisoformat(run_at_raw), None when it raises ValueError
FromIsoFormat(text) == IF text.fmt = "iso" THEN Some(text.val) ELSE None

\* queue_from_intent(summary, intent_payload), with utcnow = datetime.utcnow():
\* None, or the ScheduledCommand (payload keys that are absent are None).
QueueFromIntent(intent, utcnow) ==
    IF IsNone(intent.device) \/ intent.device = Some("") THEN None
    ELSE IF intent.type \notin {"ToggleDevice", "SetLevel"} THEN None
    ELSE LET parsed == IF IsNone(intent.runAt) THEN None
                       ELSE FromIsoFormat(Val(intent.runAt))
             scheduled_run == IF IsNone(parsed) THEN utcnow ELSE Val(parsed)
         IN  Some([entity_id |-> Val(intent.device),
                   service |-> IF intent.type = "SetLevel" \/ intent.state = Some(TRUE)
                               THEN "turn_on"
                               ELSE IF IsNone(intent.state) THEN "toggle" ELSE "turn_off",
                   brightness_pct |-> IF intent.type = "SetLevel" /\ Truthy(intent.level)
                                      THEN intent.level ELSE None,
                   temperature |-> IF intent.type = "SetLevel" /\ Truthy(intent.temperature)
                                   THEN intent.temperature ELSE None,
                   run_time |-> IsoFormat(scheduled_run),
                   next_run_at |-> scheduled_run])

NoChat ==
    [n |-> 0, at |-> 0, offset |-> 0, msg |-> Message("other", FALSE, 50, 72, None),
     intent |-> ChatIntent("QueryStatus", None, None, None, None, None),
     candidate |-> None, executed |-> None, appended |-> FALSE]

ChatInit == chat = NoChat

\* create_chat(payload) on a host whose local time is UTC + offset.
CreateChat(msg, offset) ==
    /\ chat.n < MaxChats
    /\ LET intent == ParseIntent(msg, clock + offset)
           queue_candidate == QueueFromIntent(intent, clock)
           now_utc == clock
           should_enqueue_only ==
               ~IsNone(queue_candidate) /\ Val(queue_candidate).next_run_at > now_utc
       IN  /\ chat' = [n |-> chat.n + 1, at |-> clock, offset |-> offset, msg |-> msg,
                       intent |-> intent, candidate |-> queue_candidate,
                       executed |-> IF should_enqueue_only THEN None ELSE queue_candidate,
                       appended |-> should_enqueue_only]
           /\ IF should_enqueue_only
              THEN /\ schedule' =
                         [daily |-> schedule.daily,
                          queue |-> Append(schedule.queue,
                                       MakeCommand(FreshId, "queue",
                                                   Val(queue_candidate).run_time,
                                                   Some(Val(queue_candidate).next_run_at))),
                          updatedAt |-> Some(IsoFormat(clock))]
                   /\ made' = [made EXCEPT !.queued = @ + 1]
              ELSE UNCHANGED <<schedule, made>>
    /\ UNCHANGED <<clock, execs>>
    /\ UNCHANGED <<enfVars, cmdVars, storeVars, loopVars, pureVars, copyVars, lightVars>>

ChatNext ==
    \/ \E msg \in Messages : \E offset \in HostOffsets : CreateChat(msg, offset)
    \/ \E now \in Instants : Tick(now)

\* ------------------------------------------------------------------------
\* Functions called on their own: _next_daily_occurrence, queue_from_intent
\* and EnhancedSmartThermostat.calculate_enhanced_optimal_temperature.

\* ---- _next_daily_occurrence
\* The run times (minutes of the day) and reference instants (seconds) given
RunTimes == {0, 420, 1320, 1439}

ReferenceMinutes == {0, 390, 420, 480, 1439}

ReferenceSeconds == {0, 1, 59}

References ==
    {d * Day + 60 * m + s : d \in 0..MaxDays, m \in ReferenceMinutes,
                            s \in ReferenceSeconds}

\* ---- queue_from_intent
\* The intents given
Intents ==
    {ChatIntent(type, device, state, level, temperature, runAt) :
        type \in {"ToggleDevice", "SetLevel", "QueryStatus"},
        device \in {None, Some(""), Some(KnownEntity)},
        state \in {None, Some(TRUE)},
        level \in {None, Some(0), Some(40), Some(100)},
        temperature \in {None, Some(72)},
        runAt \in {None, Some(IsoFormat(Day)), Some(TimeToString(420))}}

\* ---- calculate_enhanced_optimal_temperature
\* Temperatures are in hundredths of a degree Fahrenheit.
Degrees == 100

base_temp == 72 * Degrees

min_temp == 68 * Degrees

max_temp == 82 * Degrees

max_temp_change == 2 * Degrees

bedtime_temp == 68 * Degrees

sleep_temp == 66 * Degrees

wake_temp == 70 * Degrees

\* The inputs given: humidity (percent), outside temperature (degrees),
\* occupancy, current temperature (hundredths) and hour of the day.
Humidities == {0, 50, 60, 100}

OutsideTemps == {0 - 20, 50, 70, 90, 120}

Occupancies == {0, 1, 4, 10}

CurrentTemps == {6000, 6596, 6600, 7000, 7504, 8400, 8404, 9000}

Hours == {4, 8, 12, 16, 23}

Abs(x) == IF x < 0 THEN 0 - x ELSE x

\* round(x, 1) on hundredths; a tie goes to the even tenth
RoundTenth(x) ==
    LET r == x % 10
        down == x - r
    IN  IF r < 5 THEN down
        ELSE IF r > 5 THEN down + 10
        ELSE IF (down \div 10) % 2 = 0 THEN down ELSE down + 10

\* determine_routine_state(current_hour, occupancy_count)
DetermineRoutineState(current_hour, occupancy_count) ==
    IF occupancy_count = 0 THEN "awake"
    ELSE IF 22 <= current_hour \/ current_hour <= 2 THEN "bedtime"
    ELSE IF 3 <= current_hour /\ current_hour <= 6 THEN "sleeping"
    ELSE IF 7 <= current_hour /\ current_hour <= 8 THEN "waking_up"
    ELSE "awake"

\* max(0, sin(pi * (hour - 6) / 12)) in thousandths, for the hours given
\* (the sine is rational at each of them); 0 outside 6..18.
SunIntensity(current_hour) ==
    CASE current_hour \in {8, 16} -> 500
      [] current_hour = 12 -> 1000
      [] OTHER -> 0

\* calculate_sunlight_impact(...)['heat_gain'] with the blinds open, hundredths
SunlightHeatGain(current_hour) == (SunIntensity(current_hour) * 8 * Degrees) \div 1000

\* The outside-temperature adjustment, hundredths
OutsideAdjustment(outside_temp_f) ==
    IF outside_temp_f > 80 THEN Min((outside_temp_f - 80) * 30, 8 * Degrees)
    ELSE IF outside_temp_f < 60 THEN 0 - Min((60 - outside_temp_f) * 20, 5 * Degrees)
    ELSE 0

\* Mutation of SmoothTransition: the optimum is returned as clamped.
SmoothTransitionSkipped(optimal_temp, current_temp_f) == optimal_temp

\* The "smooth transition" step
SmoothTransition(optimal_temp, current_temp_f) ==
    IF Abs(optimal_temp - current_temp_f) > max_temp_change
    THEN IF optimal_temp > current_temp_f
         THEN current_temp_f + max_temp_change
         ELSE current_temp_f - max_temp_change
    ELSE optimal_temp

\* calculate_enhanced_optimal_temperature(...)['optimal_temperature'] with no
\* door open and the blinds open (the defaults)
OptimalTemperature(humidity_percent, outside_temp_f, occupancy_count, current_temp_f, current_hour) ==
    LET routine_state == DetermineRoutineState(current_hour, occupancy_count)
        base_target == CASE routine_state = "bedtime" -> bedtime_temp
                         [] routine_state = "sleeping" -> sleep_temp
                         [] routine_state = "waking_up" -> wake_temp
                         [] OTHER -> base_temp
        occupancy_adjustment == Min(occupancy_count * 150, 6 * Degrees)
        humidity_adjustment == IF humidity_percent > 50
                               THEN (humidity_percent - 50) * 15 ELSE 0
        sunlight_adjustment == 0 - SunlightHeatGain(current_hour) \div 2
        optimal_temp == base_target + occupancy_adjustment + humidity_adjustment
                           + sunlight_adjustment + OutsideAdjustment(outside_temp_f)
        bounded == Max(min_temp, Min(max_temp, optimal_temp))
    IN  RoundTenth(SmoothTransition(bounded, current_temp_f))

\* ------------------------------------------------------------------------
\* The alias table of app/api/chat.py and _extract_device.  A text is the
\* sequence of its characters, so that `in`, str.replace and the regular
\* expressions of _normalise_text act on it as they act on a Python str.

Capitals == <<"B", "F", "L", "P", "T">>

Smalls == <<"b", "f", "l", "p", "t">>

\* str.lower() of one character
Lower(c) ==
    IF \E i \in 1..Len(Capitals) : Capitals[i] = c
    THEN Smalls[CHOOSE i \in 1..Len(Capitals) : Capitals[i] = c]
    ELSE c

\* [a-z0-9]
Alnum ==
    {"a", "b", "c", "d", "e", "f", "g", "h", "i", "j", "k", "l", "m", "n", "o", "p",
     "q", "r", "s", "t", "u", "v", "w", "x", "y", "z",
     "0", "1", "2", "3", "4", "5", "6", "7", "8", "9"}

\* re.sub(r"[^a-z0-9]+", " ", value.lower()), given that the text before it
\* ended in a blank or not
RECURSIVE Squeeze(_, _)
Squeeze(value, afterBlank) ==
    IF value = <<>> THEN <<>>
    ELSE IF Lower(Head(value)) \in Alnum
    THEN <<Lower(Head(value))>> \o Squeeze(Tail(value), FALSE)
    ELSE IF afterBlank THEN Squeeze(Tail(value), TRUE)
    ELSE <<" ">> \o Squeeze(Tail(value), TRUE)

\* str.strip() of a text whose blanks are single
Strip(text) ==
    LET left == IF text # <<>> /\ Head(text) = " " THEN Tail(text) ELSE text
    IN  IF left # <<>> /\ left[Len(left)] = " " THEN SubSeq(left, 1, Len(left) - 1)
        ELSE left

\* _normalise_text(value)
NormaliseText(value) == Strip(Squeeze(value, FALSE))

\* Python's `candidate in text`
In(candidate, text) ==
    \E i \in 0..(Len(text) - Len(candidate)) :
        SubSeq(text, i + 1, i + Len(candidate)) = candidate

\* text.replace(key, replacement), for a key that is not empty
RECURSIVE Replace(_, _, _)
Replace(text, key, replacement) ==
    IF Len(text) < Len(key) THEN text
    ELSE IF SubSeq(text, 1, Len(key)) = key
    THEN replacement \o Replace(SubSeq(text, Len(key) + 1, Len(text)), key, replacement)
    ELSE <<Head(text)>> \o Replace(Tail(text), key, replacement)

\* _ALIAS_REPLACEMENTS
AliasReplacements ==
    << [key |-> <<"b", "e", "d", "r", "o", "o", "m">>,
        replacements |-> {<<"b", "e", "d", "r", "o", "o", "m">>, <<"b", "e", "d">>}],
       [key |-> <<"l", "i", "v", "i", "n", "g", " ", "r", "o", "o", "m">>,
        replacements |-> {<<"l", "i", "v", "i", "n", "g", " ", "r", "o", "o", "m">>, <<"l", "i", "v", "i", "n", "g">>}],
       [key |-> <<"l", "a", "m", "p">>,
        replacements |-> {<<"l", "a", "m", "p">>, <<"l", "i", "g", "h", "t">>}],
       [key |-> <<"l", "i", "g", "h", "t", "s">>,
        replacements |-> {<<"l", "i", "g", "h", "t", "s">>, <<"l", "i", "g", "h", "t">>}],
       [key |-> <<"d", "e", "s", "k">>,
        replacements |-> {<<"d", "e", "s", "k">>, <<"o", "f", "f", "i", "c", "e">>}],
       [key |-> <<"c", "o", "f", "f", "e", "e">>,
        replacements |-> {<<"c", "o", "f", "f", "e", "e">>, <<"c", "o", "f", "f", "e", "e", " ", "m", "a", "c", "h", "i", "n", "e">>}] >>

\* _expand_alias(base)
ExpandAlias(base) ==
    LET expanded ==
            {base} \cup
            UNION {{Replace(base, AliasReplacements[i].key, replacement) :
                        replacement \in AliasReplacements[i].replacements} :
                   i \in {j \in 1..Len(AliasReplacements) :
                             In(AliasReplacements[j].key, base)}}
    IN  {NormaliseText(alias) : alias \in expanded}

\* _DOMAIN_PREFERENCE
DomainPreference ==
    << <<"l", "i", "g", "h", "t">>, <<"s", "w", "i", "t", "c", "h">>, <<"f", "a", "n">>,
       <<"c", "l", "i", "m", "a", "t", "e">>, <<"c", "o", "v", "e", "r">>,
       <<"m", "e", "d", "i", "a", "_", "p", "l", "a", "y", "e", "r">>,
       <<"s", "c", "e", "n", "e">>, <<"s", "c", "r", "i", "p", "t">> >>

\* entity_id.split(".")[0] and entity_id.split(".", 1)[-1]
RECURSIVE Domain(_)
Domain(entity_id) ==
    IF entity_id = <<>> \/ Head(entity_id) = "." THEN <<>>
    ELSE <<Head(entity_id)>> \o Domain(Tail(entity_id))

ObjectId(entity_id) ==
    IF In(<<".">>, entity_id)
    THEN SubSeq(entity_id, Len(Domain(entity_id)) + 2, Len(entity_id))
    ELSE entity_id

\* An entity of the device cache: its id and its friendly_name attribute
\* (the empty text when the attribute is missing).
Entity(entity_id, friendly_name) == [entity_id |-> entity_id, friendly |-> friendly_name]

\* The alias set _build_alias_cache makes for one entity
AliasSet(entity) ==
    LET alias_set ==
            ExpandAlias(NormaliseText(ObjectId(entity.entity_id)))
            \cup (IF entity.friendly # <<>>
                  THEN ExpandAlias(NormaliseText(entity.friendly)) ELSE {})
            \cup {NormaliseText(Domain(entity.entity_id))}
    IN  {alias \in alias_set : alias # <<>>}

\* _build_alias_cache(): entity ids and their alias sets, in the order of the
\* device list
BuildAliasCache(entities) ==
    [i \in 1..Len(entities) |->
        [entity_id |-> entities[i].entity_id, candidates |-> AliasSet(entities[i])]]

\* _DOMAIN_PREFERENCE.index(domain), len(_DOMAIN_PREFERENCE) on ValueError
Priority(entity_id) ==
    IF \E i \in 1..Len(DomainPreference) : DomainPreference[i] = Domain(entity_id)
    THEN (CHOOSE i \in 1..Len(DomainPreference) : DomainPreference[i] = Domain(entity_id)) - 1
    ELSE Len(DomainPreference)

Matches(entry, search_text) ==
    \E candidate \in entry.candidates : In(candidate, search_text)

\* The loop of _extract_device over aliases.items(): best_match after the
\* entries from position i on, None while nothing matched
RECURSIVE BestMatch(_, _, _, _)
BestMatch(aliases, search_text, i, best) ==
    IF i > Len(aliases) THEN best
    ELSE IF Matches(aliases[i], search_text)
            /\ (IsNone(best) \/ Priority(aliases[i].entity_id) < Priority(Val(best)))
    THEN BestMatch(aliases, search_text, i + 1, Some(aliases[i].entity_id))
    ELSE BestMatch(aliases, search_text, i + 1, best)

Unknown == <<"u", "n", "k", "n", "o", "w", "n">>

\* _extract_device(text) with the alias table of the given device list
ExtractDeviceIn(text, entities) ==
    LET search_text == NormaliseText(text)
        aliases == BuildAliasCache(entities)
        best_match == BestMatch(aliases, search_text, 1, None)
        climates == {i \in 1..Len(aliases) : Domain(aliases[i].entity_id) = <<"c", "l", "i", "m", "a", "t", "e">>}
        covers == {i \in 1..Len(aliases) : Domain(aliases[i].entity_id) = <<"c", "o", "v", "e", "r">>}
        First(S) == aliases[CHOOSE i \in S : \A j \in S : i <= j].entity_id
    IN  IF ~IsNone(best_match) THEN Val(best_match)
        ELSE IF (In(<<"t", "h", "e", "r", "m", "o", "s", "t", "a", "t">>, search_text)
                 \/ In(<<"t", "e", "m", "p", "e", "r", "a", "t", "u", "r", "e">>, search_text))
                /\ climates # {}
        THEN First(climates)
        ELSE IF In(<<"g", "a", "r", "a", "g", "e">>, search_text) /\ covers # {} THEN First(covers)
        ELSE Unknown

\* ---- the calls of _extract_device made
BedroomLamp == <<"l", "i", "g", "h", "t", ".", "b", "e", "d", "r", "o", "o", "m", "_", "l", "a", "m", "p">>

BedroomFanPlug == <<"s", "w", "i", "t", "c", "h", ".", "b", "e", "d", "r", "o", "o", "m", "_", "f", "a", "n", "_", "p", "l", "u", "g">>

BedroomClimate == <<"c", "l", "i", "m", "a", "t", "e", ".", "b", "e", "d", "r", "o", "o", "m">>

TurnOnTheBedroom == <<"t", "u", "r", "n", " ", "o", "n", " ", "t", "h", "e", " ", "b", "e", "d", "r", "o", "o", "m">>

Texts ==
    {TurnOnTheBedroom,
     <<"T", "u", "r", "n", " ", "o", "n", " ", "t", "h", "e", " ", "b", "e", "d", "r", "o", "o", "m", " ", "l", "a", "m", "p">>,
     <<"t", "u", "r", "n", " ", "o", "n", " ", "t", "h", "e", " ", "b", "e", "d", " ", "l", "i", "g", "h", "t", "!">>,
     <<"s", "w", "i", "t", "c", "h", " ", "o", "n", " ", "t", "h", "e", " ", "b", "e", "d", "r", "o", "o", "m">>,
     <<"b", "e", "d", "r", "o", "o", "m", " ", "f", "a", "n", " ", "p", "l", "u", "g", " ", "o", "f", "f">>,
     <<"s", "e", "t", " ", "t", "h", "e", " ", "t", "e", "m", "p", "e", "r", "a", "t", "u", "r", "e">>,
     <<"o", "p", "e", "n", " ", "t", "h", "e", " ", "g", "a", "r", "a", "g", "e">>}

\* The device lists: the lamp and the plug in either order, each without a
\* friendly name, with the name its id suggests, or named after the room;
\* with or without the bedroom thermostat in front.
DeviceLists ==
    LET lamps == {Entity(BedroomLamp, f) : f \in {<<>>, <<"B", "e", "d", "r", "o", "o", "m", " ", "L", "a", "m", "p">>, <<"B", "e", "d", "r", "o", "o", "m">>}}
        plugs == {Entity(BedroomFanPlug, f) : f \in {<<>>, <<"B", "e", "d", "r", "o", "o", "m", " ", "F", "a", "n", " ", "P", "l", "u", "g">>, <<"B", "e", "d", "r", "o", "o", "m">>}}
        climate == Entity(BedroomClimate, <<"B", "e", "d", "r", "o", "o", "m", " ", "T", "h", "e", "r", "m", "o", "s", "t", "a", "t">>)
        pairs == UNION {{<<l, p>>, <<p, l>>} : l \in lamps, p \in plugs}
    IN  pairs \cup {<<climate>> \o pair : pair \in pairs}
\* ------------------------------------------------------------------------
\* HAThermostatService.check_ha_connection (app/services/ha_thermostat_service.py)

\* The values of the environment variables HA_BASE_URL and HA_TOKEN: unset,
\* empty, or a text
BaseUrls == {None, Some(""), Some("/"), Some("http://hub:8123"), Some("http://hub:8123/")}

Tokens == {None, Some(""), Some("token")}

\* What GET {ha_url}/api/ does: a 200, a status raise_for_status rejects, or
\* no connection
HubAnswers == {"200", "401", "unreachable"}

\* url.rstrip('/') on the texts above
RStripSlash(url) ==
    CASE url = "/" -> ""
      [] url = "http://hub:8123/" -> "http://hub:8123"
      [] OTHER -> url

\* Python's truth value of an optional text: None and "" are false
TruthyText(text) == ~IsNone(text) /\ Val(text) # ""

\* HAThermostatService.__init__: ha_url and ha_token
HaUrl(base_url) == IF TruthyText(base_url) THEN Some(RStripSlash(Val(base_url))) ELSE None

\* check_ha_connection(): the value returned and whether the hub was contacted
CheckHaConnection(mock_ha, base_url, token, answer) ==
    IF ~TruthyText(HaUrl(base_url)) \/ ~TruthyText(token)
    THEN [result |-> FALSE, contacted |-> FALSE]
    ELSE IF mock_ha
    THEN [result |-> TRUE, contacted |-> FALSE]
    ELSE [result |-> answer = "200", contacted |-> TRUE]

\* ------------------------------------------------------------------------
\* MockHomeAssistantClient.apply called on its own.

\* The state maps given: the seeded devices, the light switched on, and a
\* device whose state has no power key
AppliedStates ==
    {SeededDevices[d] : d \in DeviceIds}
    \cup {DeviceState(Some("on"), Some(30), None, FALSE),
          DeviceState(None, None, None, FALSE)}

\* The commands given
AppliedCommands ==
    {Command(LIGHT, action, brightness, temperature) :
        action \in Actions,
        brightness \in {None, Some(JsonNum(0 - 5)), Some(JsonNum(40)),
                        Some(JsonNum(250)), Some(JsonText)},
        temperature \in TemperatureParams}

\* ------------------------------------------------------------------------
\* InMemoryDatabase as its callers see it: the objects it stores, the objects
\* its accessors hand out and take, and what happens when a caller mutates
\* an object it holds.  Objects live on a heap and are named by their
\* position, so that two names for one object can be told from two equal
\* objects.  A model object (Device, Command, Guardrail) has its id, one
\* scalar field (name, status, max_brightness) and one container field
\* (state, parameters, allowed_actions) that is an object of its own.

\* Bounds of the model.
MaxDbCalls == 4

Kinds == {"device", "command", "guardrail"}

CopyKey(kind, id) == <<kind, id>>

\* The records the accessors are called for: the seeded ones and one command
CopyKeys ==
    {CopyKey("device", d) : d \in DeviceIds}
    \cup {CopyKey("guardrail", g) : g \in {"brightness-limit", "thermostat-allowed-actions"}}
    \cup {CopyKey("command", "c1")}

\* The values a caller writes into a scalar field or into a container
Scalars == {"seeded", "edited"}

Contents == {"seeded", "edited"}

Container(content) ==
    [model |-> FALSE, kind |-> "", id |-> "", scalar |-> content, nested |-> 0,
     last_updated |-> 0]

Model(kind, id, scalar, nested) ==
    [model |-> TRUE, kind |-> kind, id |-> id, scalar |-> scalar, nested |-> nested,
     last_updated |-> 0]

\* Mutation of ModelCopy: model_copy() without deep=True, the copy shares the
\* container of the original.
ModelCopyShallow(h, ref) == Append(h, h[ref])

\* obj.model_copy(deep=True): the heap with the copy on it; the copy is its
\* last object
ModelCopy(h, ref) ==
    LET withContainer == Append(h, h[h[ref].nested])
    IN  Append(withContainer, [h[ref] EXCEPT !.nested = Len(withContainer)])

\* What an object says when it is read through
Value(h, ref) ==
    [kind |-> h[ref].kind, id |-> h[ref].id, scalar |-> h[ref].scalar,
     content |-> h[h[ref].nested].scalar, last_updated |-> h[ref].last_updated]

\* What get_device, get_command or get_guardrail returns for a key: the value
\* of the copy, or None when it raises RecordNotFoundError
Returned(h, t, key) ==
    IF t[key] = 0 THEN None
    ELSE LET copied == ModelCopy(h, t[key]) IN Some(Value(copied, Len(copied)))

\* _seed_defaults: three devices and two guardrails, no command
SeededKeys ==
    <<CopyKey("device", LIGHT), CopyKey("device", THERMOSTAT), CopyKey("device", SWITCH),
      CopyKey("guardrail", "brightness-limit"),
      CopyKey("guardrail", "thermostat-allowed-actions")>>

CopyInit ==
    /\ heap = [i \in 1..(2 * Len(SeededKeys)) |->
                 IF i % 2 = 1 THEN Container("seeded")
                 ELSE Model(SeededKeys[i \div 2][1], SeededKeys[i \div 2][2], "seeded", i - 1)]
    /\ table = [key \in CopyKeys |->
                  IF \E i \in 1..Len(SeededKeys) : SeededKeys[i] = key
                  THEN 2 * (CHOOSE i \in 1..Len(SeededKeys) : SeededKeys[i] = key)
                  ELSE 0]
    /\ held = {}
    /\ dbOp = [op |-> "none", key |-> CopyKey("", ""), n |-> 0]

Op(op, key) == [op |-> op, key |-> key, n |-> dbOp.n + 1]

\* get_device, get_command, get_guardrail of a stored record
DbGet(key) ==
    /\ dbOp.n < MaxDbCalls
    /\ table[key] # 0
    /\ heap' = ModelCopy(heap, table[key])
    /\ held' = held \cup {Len(heap')}
    /\ dbOp' = Op("get", key)
    /\ UNCHANGED table
    /\ UNCHANGED <<enfVars, cmdVars, runVars, storeVars, loopVars, chatVars, pureVars, lightVars>>

\* The list comprehension of list_devices, list_commands, list_guardrails
\* (the heap afterwards and the copies made)
RECURSIVE CopyAll(_, _)
CopyAll(h, refs) ==
    IF refs = <<>> THEN [heap |-> h, copies |-> {}]
    ELSE LET rest == CopyAll(ModelCopy(h, Head(refs)), Tail(refs))
         IN  [heap |-> rest.heap,
              copies |-> rest.copies \cup {Len(ModelCopy(h, Head(refs)))}]

\* The stored objects of a kind, in dict order
RECURSIVE StoredRefs(_, _)
StoredRefs(t, kind) ==
    LET refs == {t[key] : key \in {k \in CopyKeys : k[1] = kind /\ t[k] # 0}}
    IN  IF refs = {} THEN <<>>
        ELSE LET first == CHOOSE r \in refs : \A q \in refs : r <= q
                 rest == [key \in CopyKeys |-> IF t[key] = first THEN 0 ELSE t[key]]
             IN  <<first>> \o StoredRefs(rest, kind)

\* list_devices, list_commands, list_guardrails
DbList(kind) ==
    /\ dbOp.n < MaxDbCalls
    /\ StoredRefs(table, kind) # <<>>
    /\ heap' = CopyAll(heap, StoredRefs(table, kind)).heap
    /\ held' = held \cup CopyAll(heap, StoredRefs(table, kind)).copies
    /\ dbOp' = Op("list", CopyKey(kind, ""))
    /\ UNCHANGED table
    /\ UNCHANGED <<enfVars, cmdVars, runVars, storeVars, loopVars, chatVars, pureVars, lightVars>>

\* A caller builds a Device, Command or Guardrail of its own
Construct(key) ==
    /\ dbOp.n < MaxDbCalls
    /\ heap' = Append(Append(heap, Container("edited")),
                      Model(key[1], key[2], "edited", Len(heap) + 1))
    /\ held' = held \cup {Len(heap')}
    /\ dbOp' = Op("construct", key)
    /\ UNCHANGED table
    /\ UNCHANGED <<enfVars, cmdVars, runVars, storeVars, loopVars, chatVars, pureVars, lightVars>>

\* upsert_device, upsert_command, upsert_guardrail of an object the caller
\* holds; upsert_device first sets last_updated on the caller's object
DbUpsert(ref) ==
    /\ dbOp.n < MaxDbCalls
    /\ LET key == CopyKey(heap[ref].kind, heap[ref].id)
           stamped == IF heap[ref].kind = "device"
                      THEN [heap EXCEPT ![ref].last_updated = dbOp.n + 1]
                      ELSE heap
       IN  /\ heap' = ModelCopy(stamped, ref)
           /\ table' = [table EXCEPT ![key] = Len(heap')]
           /\ dbOp' = Op("upsert", key)
    /\ UNCHANGED held
    /\ UNCHANGED <<enfVars, cmdVars, runVars, storeVars, loopVars, chatVars, pureVars, lightVars>>

\* delete_guardrail of a stored guardrail
DbDeleteGuardrail(key) ==
    /\ dbOp.n < MaxDbCalls
    /\ key[1] = "guardrail"
    /\ table[key] # 0
    /\ table' = [table EXCEPT ![key] = 0]
    /\ dbOp' = Op("delete", key)
    /\ UNCHANGED <<heap, held>>
    /\ UNCHANGED <<enfVars, cmdVars, runVars, storeVars, loopVars, chatVars, pureVars, lightVars>>

\* A caller assigns a field of an object it holds: obj.name = ...
MutateField(ref, scalar) ==
    /\ dbOp.n < MaxDbCalls
    /\ heap[ref].scalar # scalar
    /\ heap' = [heap EXCEPT ![ref].scalar = scalar]
    /\ dbOp' = Op("mutate", CopyKey(heap[ref].kind, heap[ref].id))
    /\ UNCHANGED <<table, held>>
    /\ UNCHANGED <<enfVars, cmdVars, runVars, storeVars, loopVars, chatVars, pureVars, lightVars>>

\* A caller changes the container inside an object it holds:
\* obj.state["power"] = ...
MutateContainer(ref, content) ==
    /\ dbOp.n < MaxDbCalls
    /\ heap[heap[ref].nested].scalar # content
    /\ heap' = [heap EXCEPT ![heap[ref].nested].scalar = content]
    /\ dbOp' = Op("mutate", CopyKey(heap[ref].kind, heap[ref].id))
    /\ UNCHANGED <<table, held>>
    /\ UNCHANGED <<enfVars, cmdVars, runVars, storeVars, loopVars, chatVars, pureVars, lightVars>>

CopyNext ==
    \/ \E key \in CopyKeys : DbGet(key)
    \/ \E kind \in Kinds : DbList(kind)
    \/ \E key \in {CopyKey("device", LIGHT), CopyKey("command", "c1"),
                   CopyKey("guardrail", "brightness-limit")} : Construct(key)
    \/ \E ref \in held : DbUpsert(ref)
    \/ \E key \in CopyKeys : DbDeleteGuardrail(key)
    \/ \E ref \in held : \E scalar \in Scalars : MutateField(ref, scalar)
    \/ \E ref \in held : \E content \in Contents : MutateContainer(ref, content)

\* ------------------------------------------------------------------------
\* SmartHomeLightManager (archive/Lights Switch.py)

\* Bounds of the model.
MaxLightCalls == 3

\* Room, without ALL and NONE: the keys of self.lights, in dict order
LightRooms ==
    <<"living_room", "bedroom", "kitchen", "bathroom", "dining_room", "office",
      "garage", "hallway">>

\* The room and state texts given to control_lights
RoomTexts == {"bedroom", " Bedroom", "Lounge", "kitchen", "all", "nowhere", "attic"}

StateTexts == {"on", "off", "Turn On ", "0", "dim"}

\* text.lower().strip() on the texts above
LowerStrip(text) ==
    CASE text = " Bedroom" -> "bedroom"
      [] text = "Lounge" -> "lounge"
      [] text = "Turn On " -> "turn on"
      [] OTHER -> text

\* self.room_aliases
RoomAlias(room_lower) ==
    CASE room_lower \in {"living room", "livingroom", "lounge"} -> Some("living_room")
      [] room_lower \in {"bed room", "master bedroom"} -> Some("bedroom")
      [] room_lower \in {"bath room", "bath"} -> Some("bathroom")
      [] room_lower \in {"dining room", "diningroom"} -> Some("dining_room")
      [] room_lower \in {"study", "home office"} -> Some("office")
      [] room_lower \in {"hall", "corridor"} -> Some("hallway")
      [] room_lower \in {"everywhere", "every room", "entire house", "whole house"}
            -> Some("all")
      [] room_lower \in {"nowhere", "no room"} -> Some("none")
      [] OTHER -> None

\* _normalize_room(room)
NormalizeRoom(room) ==
    LET room_lower == LowerStrip(room)
    IN  IF room_lower \in {LightRooms[i] : i \in 1..Len(LightRooms)} \cup {"all", "none"}
        THEN Some(room_lower)
        ELSE RoomAlias(room_lower)

\* _normalize_state(state)
NormalizeState(state) ==
    LET state_lower == LowerStrip(state)
    IN  IF state_lower \in {"on", "turn on", "switch on", "enable", "activate", "1", "true"}
        THEN Some("on")
        ELSE IF state_lower \in {"off", "turn off", "switch off", "disable",
                                 "deactivate", "0", "false"}
        THEN Some("off")
        ELSE None

\* _format_room_name(room): room.value.replace('_', ' ').title()
FormatRoomName(room) ==
    CASE room = "living_room" -> "Living Room"
      [] room = "bedroom" -> "Bedroom"
      [] room = "kitchen" -> "Kitchen"
      [] room = "bathroom" -> "Bathroom"
      [] room = "dining_room" -> "Dining Room"
      [] room = "office" -> "Office"
      [] room = "garage" -> "Garage"
      [] room = "hallway" -> "Hallway"

\* state.value.upper()
Upper(state) == IF state = "on" THEN "ON" ELSE "OFF"

\* A status text: the sign in front and the words after it
Status(sign, words) == [sign |-> sign, words |-> words]

\* The response of control_lights: the keys that do not depend on the clock
\* (a key the response does not have is None)
Response(status, success, room, current_state, changed_rooms) ==
    [status |-> status, success |-> success, room |-> room,
     current_state |-> current_state, changed_rooms |-> changed_rooms]

\* Mutation of ControlSingleRoom: old_state is read after the assignment.
ControlSingleRoomReadingLate(lamps, room, state) ==
    [lights |-> [lamps EXCEPT ![room] = state],
     response |-> Response(Status("info", "NO CHANGE"), TRUE, Some(FormatRoomName(room)),
                           Some(Upper(state)), None)]

\* _control_single_room(room, state): self.lights afterwards and the response
ControlSingleRoom(lamps, room, state) ==
    LET old_state == lamps[room]
    IN  [lights |-> [lamps EXCEPT ![room] = state],
         response |->
            IF old_state = state
            THEN Response(Status("info", "NO CHANGE"), TRUE, Some(FormatRoomName(room)),
                          Some(Upper(state)), None)
            ELSE Response(Status("check", "SUCCESS"), TRUE, Some(FormatRoomName(room)),
                          Some(Upper(state)), None)]

\* _control_all_lights(state), and _turn_off_all_lights() which differs from
\* it in the message only
ControlAllLights(lamps, state) ==
    [lights |-> [r \in DOMAIN lamps |-> state],
     response |->
        Response(Status("check", "SUCCESS"), TRUE, None, Some(Upper(state)),
                 Some(SelectSeq([i \in 1..Len(LightRooms) |-> FormatRoomName(LightRooms[i])],
                                LAMBDA name : \E r \in DOMAIN lamps :
                                    FormatRoomName(r) = name /\ lamps[r] # state)))]

\* control_lights(room, state)
ControlLights(lamps, room, state) ==
    LET normalized_room == NormalizeRoom(room)
        normalized_state == NormalizeState(state)
    IN  IF IsNone(normalized_room) \/ IsNone(normalized_state)
        THEN [lights |-> lamps,
              response |-> Response(Status("cross", "ERROR"), FALSE, None, None, None)]
        ELSE IF Val(normalized_room) = "all"
        THEN ControlAllLights(lamps, Val(normalized_state))
        ELSE IF Val(normalized_room) = "none"
        THEN ControlAllLights(lamps, "off")
        ELSE ControlSingleRoom(lamps, Val(normalized_room), Val(normalized_state))

\* __init__: every light off
LightInit ==
    /\ lights = [r \in {LightRooms[i] : i \in 1..Len(LightRooms)} |-> "off"]
    /\ lightLog = <<>>

CallControlLights(room, state) ==
    /\ Len(lightLog) < MaxLightCalls
    /\ lights' = ControlLights(lights, room, state).lights
    /\ lightLog' = Append(lightLog,
                          [room |-> room, state |-> state, before |-> lights,
                           response |-> ControlLights(lights, room, state).response])
    /\ UNCHANGED <<enfVars, cmdVars, runVars, storeVars, loopVars, chatVars, pureVars, copyVars>>

LightNext == \E room \in RoomTexts : \E state \in StateTexts : CallControlLights(room, state)

\* ------------------------------------------------------------------------
\* HADeviceService.execute_service in mock mode (app/services/ha_device_service.py)
\* and the scheduler runner's _execute_command on top of it.

\* An entity of devices.json: its id, its state and the attributes the
\* payloads of scheduled commands write (None: the key is absent)
CachedEntity(entity_id, state, brightness_pct, temperature) ==
    [entity_id |-> entity_id, state |-> state,
     attributes |-> [brightness_pct |-> brightness_pct, temperature |-> temperature]]

\* The payload of a scheduled command (None: the key is absent)
Payload(brightness_pct, temperature) ==
    [brightness_pct |-> brightness_pct, temperature |-> temperature]

\* The branch of _update_mock_cache for one entity
UpdateEntity(entity, service, payload) ==
    LET stated ==
            IF service = "toggle"
            THEN [entity EXCEPT !.state = IF entity.state = "on" THEN "off" ELSE "on"]
            ELSE IF service = "turn_on" THEN [entity EXCEPT !.state = "on"]
            ELSE IF service = "turn_off" THEN [entity EXCEPT !.state = "off"]
            ELSE IF service = "set_temperature" /\ ~IsNone(payload.temperature)
            THEN [entity EXCEPT !.attributes.temperature = payload.temperature]
            ELSE entity
    IN  [stated EXCEPT
            !.attributes.brightness_pct =
                IF IsNone(payload.brightness_pct) THEN @ ELSE payload.brightness_pct,
            !.attributes.temperature =
                IF IsNone(payload.temperature) THEN @ ELSE payload.temperature]

\* _update_mock_cache(entity_id, service, payload): the cache afterwards and
\* the entity updated (None when no entity has the id; nothing is saved then)
UpdateMockCache(cache, entity_id, service, payload) ==
    LET hits == {i \in 1..Len(cache) : cache[i].entity_id = entity_id}
    IN  IF hits = {} THEN [cache |-> cache, updated |-> None]
        ELSE LET first == CHOOSE i \in hits : \A j \in hits : i <= j
                 entity == UpdateEntity(cache[first], service, payload)
             IN  [cache |-> [cache EXCEPT ![first] = entity], updated |-> Some(entity)]

\* execute_service(entity_id, service, service_data) with MOCK_HA set: the
\* tuple it returns, and the cache afterwards
ExecuteService(cache, entity_id, service, service_data) ==
    IF entity_id = ""
    THEN [success |-> FALSE, entity |-> None, error |-> Some("Entity id is required"),
          cache |-> cache]
    ELSE LET done == UpdateMockCache(cache, entity_id, service, service_data)
         IN  [success |-> TRUE, entity |-> done.updated,
              error |-> IF IsNone(done.updated) THEN Some("Mock entity not found") ELSE None,
              cache |-> done.cache]

\* The caches, entity ids, services and payloads given
MockCaches ==
    {<<>>,
     <<CachedEntity("light.living_room", "off", None, None),
       CachedEntity("climate.bedroom", "cool", None, Some(70))>>}

EntityIds == {"", "light.living_room", "climate.bedroom", "light.attic", UNKNOWN}

Services == {"turn_on", "turn_off", "toggle", "set_temperature"}

Payloads == {Payload(None, None), Payload(Some(40), None), Payload(None, Some(72))}

\* ------------------------------------------------------------------------
\* Each behaviour makes one call, with arguments from the sets above.
PureInit == call = [fn |-> "none"]

CallNextDailyOccurrence(run_time, reference) ==
    /\ call.fn = "none"
    /\ call' = [fn |-> "_next_daily_occurrence", run_time |-> run_time,
                reference |-> reference,
                result |-> NextDailyOccurrence([run_time |-> TimeToString(run_time)],
                                               reference)]
    /\ UNCHANGED <<enfVars, cmdVars, runVars, storeVars, loopVars, chatVars, copyVars, lightVars>>

CallQueueFromIntent(intent, utcnow) ==
    /\ call.fn = "none"
    /\ call' = [fn |-> "queue_from_intent", intent |-> intent, utcnow |-> utcnow,
                result |-> QueueFromIntent(intent, utcnow)]
    /\ UNCHANGED <<enfVars, cmdVars, runVars, storeVars, loopVars, chatVars, copyVars, lightVars>>

CallOptimalTemperature(humidity, outside, occupancy, current, hour) ==
    /\ call.fn = "none"
    /\ call' = [fn |-> "calculate_enhanced_optimal_temperature",
                humidity |-> humidity, outside |-> outside, occupancy |-> occupancy,
                current |-> current, hour |-> hour,
                result |-> OptimalTemperature(humidity, outside, occupancy, current, hour)]
    /\ UNCHANGED <<enfVars, cmdVars, runVars, storeVars, loopVars, chatVars, copyVars, lightVars>>

CallExtractDevice(text, entities) ==
    /\ call.fn = "none"
    /\ call' = [fn |-> "_extract_device", text |-> text, entities |-> entities,
                result |-> ExtractDeviceIn(text, entities)]
    /\ UNCHANGED <<enfVars, cmdVars, runVars, storeVars, loopVars, chatVars, copyVars, lightVars>>

CallCheckHaConnection(mock_ha, base_url, token, answer) ==
    /\ call.fn = "none"
    /\ call' = [fn |-> "check_ha_connection", mock_ha |-> mock_ha, base_url |-> base_url,
                token |-> token, answer |-> answer,
                result |-> CheckHaConnection(mock_ha, base_url, token, answer)]
    /\ UNCHANGED <<enfVars, cmdVars, runVars, storeVars, loopVars, chatVars, copyVars, lightVars>>

CallApply(state, command) ==
    /\ call.fn = "none"
    /\ call' = [fn |-> "apply", state |-> state, command |-> command,
                result |-> Apply(state, command)]
    /\ UNCHANGED <<enfVars, cmdVars, runVars, storeVars, loopVars, chatVars, copyVars, lightVars>>

\* A tick at `now` whose schedule holds one queue entry, due at `now`, for the
\* given entity, service and payload: _execute_command returns the success
\* flag of execute_scheduled, and _process_schedule goes by it.
CallExecuteScheduled(cache, entity_id, service, payload, now) ==
    /\ call.fn = "none"
    /\ LET entry == MakeCommand(1, "queue", IsoFormat(now), Some(now))
           doc == [daily |-> <<>>, queue |-> <<entry>>, updatedAt |-> None]
           result == ExecuteService(cache, entity_id, service, payload)
           oks == IF result.success THEN {entry.id} ELSE {}
       IN  call' = [fn |-> "execute_scheduled", cache |-> cache, entity_id |-> entity_id,
                    service |-> service, payload |-> payload, now |-> now,
                    entry |-> entry, result |-> result,
                    processed |-> ProcessSchedule(doc, now, oks)]
    /\ UNCHANGED <<enfVars, cmdVars, runVars, storeVars, loopVars, chatVars, copyVars, lightVars>>

PureNext ==
    \/ \E run_time \in RunTimes : \E reference \in References :
          CallNextDailyOccurrence(run_time, reference)
    \/ \E intent \in Intents : CallQueueFromIntent(intent, 0)
    \/ \E humidity \in Humidities : \E outside \in OutsideTemps :
       \E occupancy \in Occupancies : \E current \in CurrentTemps : \E hour \in Hours :
          CallOptimalTemperature(humidity, outside, occupancy, current, hour)
    \/ \E text \in Texts : \E entities \in DeviceLists : CallExtractDevice(text, entities)
    \/ \E mock_ha \in BOOLEAN : \E base_url \in BaseUrls : \E token \in Tokens :
       \E answer \in HubAnswers : CallCheckHaConnection(mock_ha, base_url, token, answer)
    \/ \E state \in AppliedStates : \E command \in AppliedCommands : CallApply(state, command)
    \/ \E cache \in MockCaches : \E entity_id \in EntityIds : \E service \in Services :
       \E payload \in Payloads : CallExecuteScheduled(cache, entity_id, service, payload, Day)
\* ------------------------------------------------------------------------
\* Specifications.  Each drives one part of the repository and leaves the
\* others in their initial state.

\* Guardrail.enforce on its own.
InitEnforce ==
    /\ EnforceInit
    /\ CmdInit
    /\ RunInit
    /\ StoreInit
    /\ LoopInit
    /\ ChatInit
    /\ PureInit
    /\ CopyInit
    /\ LightInit

SpecEnforce == InitEnforce /\ [][CallEnforce]_vars

\* The in-memory-database generation.
Init ==
    /\ EnforceParked
    /\ CmdInit
    /\ RunInit
    /\ StoreInit
    /\ LoopInit
    /\ ChatInit
    /\ PureInit
    /\ CopyInit
    /\ LightInit

Spec == Init /\ [][CmdNext]_vars

\* The schedule document and the scheduler runner.
SpecRunner == Init /\ [][RunNext]_vars

\* The state directory.
SpecStore == Init /\ [][StoreNext]_vars

SpecCancel == Init /\ [][CancelNext]_vars

\* run_scheduler_loop as a task.
SpecLoop == Init /\ [][LoopNext]_vars

\* POST /chat.
SpecChat == Init /\ [][ChatNext]_vars

\* Functions called on their own.
SpecPure == Init /\ [][PureNext]_vars


\* InMemoryDatabase and the objects its callers hold.
SpecCopy == Init /\ [][CopyNext]_vars

\* SmartHomeLightManager.
SpecLight == Init /\ [][LightNext]_vars

\* The command scheduler with the seeded guardrails left as they are, under
\* an event loop that schedules fairly: a task or handler that can go on
\* past its await does go on.  Requests, start() and stop() arrive or not.
LiveNext ==
    \/ \E r \in CmdIds : QcReceive(r)
    \/ \E r \in CmdIds : QcGetDevice(r)
    \/ \E r \in CmdIds : QcEnforce(r)
    \/ \E r \in CmdIds : QcEnqueueAndStart(r)
    \/ Start
    \/ \E s \in StopIds : StopCall(s)
    \/ \E s \in StopIds : StopResume(s)
    \/ \E w \in WorkerIds : WorkerRun(w)
    \/ \E w \in WorkerIds : WorkerGet(w)
    \/ \E w \in WorkerIds : WorkerGetDevice(w)
    \/ \E w \in WorkerIds : WorkerMark(w)
    \/ \E w \in WorkerIds : WorkerDeviceUpsert(w)
    \/ \E w \in WorkerIds : WorkerFinal(w)
    \/ \E w \in WorkerIds : WorkerLog(w)

FairLoop ==
    /\ \A r \in CmdIds :
          /\ WF_vars(QcGetDevice(r))
          /\ WF_vars(QcEnforce(r))
          /\ WF_vars(QcEnqueueAndStart(r))
    /\ \A s \in StopIds : WF_vars(StopResume(s))
    /\ \A w \in WorkerIds :
          /\ WF_vars(WorkerRun(w))
          /\ WF_vars(WorkerGet(w))
          /\ WF_vars(WorkerGetDevice(w))
          /\ WF_vars(WorkerMark(w))
          /\ WF_vars(WorkerDeviceUpsert(w))
          /\ WF_vars(WorkerFinal(w))
          /\ WF_vars(WorkerLog(w))

SpecFair == Init /\ [][LiveNext]_vars /\ FairLoop
\* ------------------------------------------------------------------------
\* C3: a guardrail built with allowed_actions=[set_temperature] targeting the
\* hallway thermostat, enforced on the hallway thermostat, returns for
\* set_temperature and raises GuardrailViolation for every other action.
IsThermostatGuardrail == Guardrail(enfKwargs) = Guardrail(ThermostatGuardrailKwargs)

C3_ThermostatGuardrailAllowsOnlySetTemperature ==
    (IsThermostatGuardrail /\ enfDevice = THERMOSTAT /\ enfResult # "pending")
        => (enfResult = IF enfCommand.action = "set_temperature" THEN "ok" ELSE "violation")

C3_Witness ==
    /\ IsThermostatGuardrail
    /\ enfDevice = THERMOSTAT
    /\ enfCommand.action = "turn_off"
    /\ enfResult = "violation"

\* C2: the guardrail of the unit tests does not raise for turn_on on the
\* living-room light, and a guardrail given target_devices never rejects a
\* command for a device outside them.
C2_TargetedGuardrailLeavesOtherDevicesAlone ==
    (/\ enfResult # "pending"
     /\ ~IsNone(enfKwargs.target_devices)
     /\ enfDevice \notin Val(enfKwargs.target_devices))
        => enfResult = "ok"



\* ------------------------------------------------------------------------
\* Claims about the in-memory-database generation, under Spec.

Range(seq) == {seq[i] : i \in 1..Len(seq)}

\* C1: every POST /api/commands request whose command violates a configured
\* guardrail is answered with a client error (4xx), and leaves no command
\* record, nothing on the scheduler queue and nothing executed, then or later.
C1_ViolatingCommandRejectedWithClientError ==
    \A r \in CmdIds :
        (reqs[r].pc = "done" /\ reqs[r].violated)
            => /\ reqs[r].response \in 400..499
               /\ IsNone(commands[r])
               /\ r \notin Range(putOrder)
               /\ r \notin Range(startOrder)

\* C4: with the seeded guardrails, set_temperature for the hallway thermostat
\* is accepted by POST /api/commands, and every other action on the hallway
\* thermostat is rejected as a guardrail violation.
C4_SeededGuardrailsAcceptSetTemperature ==
    \A r \in CmdIds :
        (/\ guardrails = SeededGuardrails
         /\ reqs[r].pc = "done"
         /\ cmdObj[r].device_id = THERMOSTAT)
            => reqs[r].response =
                  IF cmdObj[r].action = "set_temperature" THEN 202 ELSE 400

\* A worker task is executing a command from the executor marking it
\* IN_PROGRESS until its final status is written.
Executing(w) == tasks[w].pc \in {"markUpsert", "deviceUpsert", "finalUpsert"}

Unfinished(w) == tasks[w].pc \notin {"none", "done", "crashed"}

C7_OnlyTheReferencedWorkerRuns ==
    \A w \in WorkerIds : Unfinished(w) => w = worker


\* ------------------------------------------------------------------------
\* Claims about the scheduler runner, under SpecRunner.

\* The first instant strictly later than t at which the clock reads the
\* minute m of the day (with zero seconds).
OccurrenceAfter(m, t) ==
    LET today == (t - (t % Day)) + 60 * m
    IN  IF today > t THEN today ELSE today + Day

DailySuccesses == {r \in execs : r.category = "daily" /\ r.ok}

\* No tick executes the entry again between a successful execution and the
\* next_run_at that execution wrote.
NotAgainBeforeNext(r) ==
    \A r2 \in execs : (r2.id = r.id /\ r2.at > r.at) => r2.at >= Val(r.next)

\* C8 as stated: after a tick at `now` executes a daily entry successfully,
\* its next_run_at is strictly later than `now` and is the next occurrence of
\* its HH:MM run time, and no later tick executes it before that instant.
C8_NextRunIsNextOccurrence ==
    \A r \in DailySuccesses :
        /\ Val(r.next) > r.at
        /\ Val(r.next) = OccurrenceAfter(r.run_time.val, r.at)
        /\ NotAgainBeforeNext(r)

\* C8, amended: after a tick at `now` executes a daily entry successfully,
\* its next_run_at is strictly later than `now` and is the first occurrence
\* of its HH:MM run time strictly later than `now` plus one second, and no
\* later tick executes it before that instant.
C8_NextRunIsOccurrenceAfterOneSecond ==
    \A r \in DailySuccesses :
        /\ Val(r.next) > r.at
        /\ Val(r.next) = OccurrenceAfter(r.run_time.val, r.at + OneSecond)
        /\ NotAgainBeforeNext(r)

\* A daily entry was executed successfully one second before an occurrence
\* of its run time, and was rescheduled to the occurrence a day after that.
C8_Witness ==
    \E r \in DailySuccesses :
        /\ OccurrenceAfter(r.run_time.val, r.at) = r.at + OneSecond
        /\ Val(r.next) = r.at + OneSecond + Day

QueueExecs == {r \in execs : r.category = "queue"}

InQueue(id) == \E i \in 1..Len(schedule.queue) : schedule.queue[i].id = id

LatestExec(r) == \A r2 \in execs : r2.id = r.id => r2.at <= r.at

\* An entry is due at a tick when its next_run_at is missing or not later
\* than the tick's instant.
DueAt(entry, now) ==
    IsNone(entry.next_run_at) \/ Val(entry.next_run_at).val <= now

C9_QueueState ==
    \A r \in QueueExecs :
        /\ \A r2 \in QueueExecs : (r2.id = r.id /\ r.ok /\ r2.ok) => r2 = r
        /\ r.ok => ~InQueue(r.id)
        /\ (~r.ok /\ LatestExec(r)) =>
              \E i \in 1..Len(schedule.queue) :
                  /\ schedule.queue[i].id = r.id
                  /\ schedule.queue[i].next_run_at = Some(IsoFormat(r.at + RetryDelay))

C9_DueIsExecuted ==
    clock' # clock =>
        \A i \in 1..Len(schedule.queue) :
            DueAt(schedule.queue[i], clock') =>
                \E r \in execs' : r.id = schedule.queue[i].id /\ r.at = clock'

\* C9: a queue entry is executed successfully at most once; a tick that
\* finds it due executes it; a success removes it from the persisted queue in
\* that tick; a failure keeps it with next_run_at = tick time + 5 minutes.
C9_QueueEntryRunsOnce == []C9_QueueState /\ [][C9_DueIsExecuted]_vars

\* A queue entry failed at one tick and succeeded at a later one.
C9_Witness ==
    \E r1 \in QueueExecs, r2 \in QueueExecs :
        /\ r1.id = r2.id
        /\ ~r1.ok
        /\ r2.ok
        /\ r2.at >= r1.at + RetryDelay
        /\ ~InQueue(r2.id)

\* ------------------------------------------------------------------------
\* Claims about the state directory, under SpecStore.

\* C10: a read of a persisted document returns a complete content, never an
\* empty or partially written file, whichever code path writes the document.
C10_ReadsSeeCompleteDocuments == observed.bytes = "complete"

\* ------------------------------------------------------------------------
\* Claims about the executor and DELETE /api/commands/{id}, under SpecCancel.

\* The commands for which CommandExecutor.execute has returned: execute
\* appends one log entry per call, as its last step.
Executed == {logs[i].command_id : i \in 1..Len(logs)}

\* C12: once CommandExecutor.execute has returned for a command, whether the
\* device operation succeeded or raised, the stored record of the command is
\* COMPLETED or FAILED (never PENDING or IN_PROGRESS) with completed_at set,
\* and a FAILED record carries the error text.
C12_ExecutedCommandIsStoredFinal ==
    \A c \in Executed :
        /\ ~IsNone(commands[c])
        /\ Val(commands[c]).status \in {"completed", "failed"}
        /\ Val(commands[c]).completed_at
        /\ Val(commands[c]).status = "failed" => ~IsNone(Val(commands[c]).error)

\* One execution whose device operation raised and one that succeeded.
C12_Witness ==
    \E i \in 1..Len(logs), j \in 1..Len(logs) :
        /\ logs[i].failed
        /\ Val(commands[logs[i].command_id]).error = Some("ValueError")
        /\ ~logs[j].failed
        /\ Val(commands[logs[j].command_id]).status = "completed"

\* The ids that have a stored record
Stored(records) == {c \in CmdIds : ~IsNone(records[c])}

\* The step in which a DELETE request that found its command returns
DeleteReturns(d) == dels[d].pc = "upsert" /\ dels'[d].pc = "done"

StopReturns(s) == stops[s].pc # "done" /\ stops'[s].pc = "done"

\* C14: when CommandScheduler.stop returns, the worker it awaited has ended
\* and the queue is drained: every command put on the queue has been
\* executed, and the queue holds no command and no shutdown sentinel.
C14_StopReturnsWithDrainedQueue ==
    [][\A s \in StopIds :
          StopReturns(s) =>
              /\ queue' = <<>>
              /\ Range(putOrder') \subseteq Executed']_vars

\* ------------------------------------------------------------------------
\* Claims about the schedule document, under SpecRunner.

\* C15: rebuild_daily_schedule replaces only the daily bucket: the queue
\* bucket it stores is the queue bucket it found, entry for entry.
C15_RebuildLeavesQueueUntouched ==
    [][made'.rebuilds # made.rebuilds => schedule'.queue = schedule.queue]_vars

\* The daily bucket was rebuilt while the queue held an entry appended before.
C15_Witness ==
    /\ made.rebuilds = 1
    /\ Len(schedule.daily) = 2
    /\ Len(schedule.queue) = 1
    /\ schedule.queue[1].id < schedule.daily[1].id

\* ------------------------------------------------------------------------
\* Claims about run_scheduler_loop, under SpecLoop.

C16_LoopState ==
    \/ Alive
    \/ loop.pc = "returned" /\ stop_event
    \/ loop.pc = "cancelled" /\ loop.cancel

C16_RaisedIterationGoesOn ==
    (clock' # clock /\ loop'.last = "raised")
        => loop'.pc = IF stop_event THEN "returned" ELSE "sleeping"

\* C16: an exception raised in an iteration of run_scheduler_loop does not
\* end the loop: after it the task sleeps until the next iteration, and the
\* loop ends only by cancellation of the task or through a set stop_event.
C16_ExceptionNeverEndsLoop == []C16_LoopState /\ [][C16_RaisedIterationGoesOn]_vars

\* After an iteration that raised, a later iteration processed the schedule
\* and executed a command.
C16_Witness ==
    /\ loop.raised >= 1
    /\ loop.last = "ok"
    /\ \E r \in execs : r.at = clock

\* ------------------------------------------------------------------------
\* Claims about functions called on their own, under SpecPure.

\* C17: for a run_time HH:MM and a reference instant, _next_daily_occurrence
\* returns the earliest instant strictly after the reference whose clock time
\* is HH:MM:00: on the reference's day when the reference is before HH:MM,
\* on the next day otherwise.
C17_NextDailyOccurrenceIsEarliestLater ==
    call.fn = "_next_daily_occurrence" =>
        LET target == 60 * call.run_time
            midnight == call.reference - (call.reference % Day)
        IN  /\ call.result > call.reference
            /\ call.result % Day = target
            /\ call.result - Day <= call.reference
            /\ call.result = IF call.reference % Day < target
                             THEN midnight + target
                             ELSE midnight + Day + target

\* 07:00 evaluated at 08:00 gives 07:00 of the next day.
C17_Witness ==
    /\ call.fn = "_next_daily_occurrence"
    /\ call.run_time = 420
    /\ call.reference = 480 * 60
    /\ call.result = Day + 420 * 60

\* C18: for a SetLevel intent that names a device, queue_from_intent returns
\* a turn_on command whose payload has brightness_pct equal to the intent's
\* level when it carries one (every level from 0 to 100) and temperature
\* equal to the intent's temperature when it carries one.
C18_SetLevelPayloadCarriesLevel ==
    (/\ call.fn = "queue_from_intent"
     /\ call.intent.type = "SetLevel"
     /\ call.intent.device = Some(KnownEntity))
        => /\ ~IsNone(call.result)
           /\ Val(call.result).service = "turn_on"
           /\ ~IsNone(call.intent.level)
                 => Val(call.result).brightness_pct = call.intent.level
           /\ ~IsNone(call.intent.temperature)
                 => Val(call.result).temperature = call.intent.temperature

\* C20 as stated: the optimal temperature lies in [68, 82] and differs from
\* the current temperature by at most 2.0.
C20_OptimalWithinBoundsAndTwoDegrees ==
    call.fn = "calculate_enhanced_optimal_temperature" =>
        /\ call.result \in (68 * Degrees)..(82 * Degrees)
        /\ Abs(call.result - call.current) <= 2 * Degrees

\* C20, amended: the optimal temperature is a value within 2.0 of the current
\* temperature, rounded to one decimal (so within 2.05 of it); it lies in
\* [68, 82] when the current temperature is in [66, 84]; below 66 it is
\* current + 2.0 and above 84 it is current - 2.0, rounded to one decimal.
C20_OptimalWithinTwoDegreesOfCurrent ==
    call.fn = "calculate_enhanced_optimal_temperature" =>
        /\ \E x \in (call.current - 2 * Degrees)..(call.current + 2 * Degrees) :
              call.result = RoundTenth(x)
        /\ Abs(call.result - call.current) <= 2 * Degrees + 5
        /\ call.current \in (66 * Degrees)..(84 * Degrees)
              => call.result \in (68 * Degrees)..(82 * Degrees)
        /\ call.current < 66 * Degrees
              => call.result = RoundTenth(call.current + 2 * Degrees)
        /\ call.current > 84 * Degrees
              => call.result = RoundTenth(call.current - 2 * Degrees)

\* A current temperature of 60 gives 62, below the lower bound.
C20_Witness ==
    /\ call.fn = "calculate_enhanced_optimal_temperature"
    /\ call.current = 60 * Degrees
    /\ call.result = 62 * Degrees

\* ------------------------------------------------------------------------
\* Claims about POST /chat, under SpecChat.

\* The message names a device the alias table knows
NamesDevice(msg) == msg.kind \in {"turn on", "turn off", "set %"} /\ msg.alias

\* No known device can be identified in the message
NoDeviceIdentified(msg) ==
    msg.kind = "other" \/ (msg.kind \in {"turn on", "turn off", "set %"} /\ ~msg.alias)

\* C11: a request whose intent names a device and carries the runAt of a
\* time phrase (the next occurrence of that clock time) only appends to the
\* schedule queue, whatever the host's offset from UTC; a request whose
\* intent has a device and no future runAt only executes; none does both.
C11_FutureRunAtIsOnlyEnqueued ==
    chat.n > 0 =>
        /\ (NamesDevice(chat.msg) /\ ~IsNone(chat.msg.phrase))
              => (chat.appended /\ IsNone(chat.executed))
        /\ (~IsNone(chat.candidate) /\ IsNone(chat.msg.phrase))
              => (~chat.appended /\ ~IsNone(chat.executed))
        /\ ~(chat.appended /\ ~IsNone(chat.executed))

\* C19: queue_from_intent returns nothing for an intent without a device,
\* and a message in which no known device can be identified executes no
\* device service and appends nothing to the schedule queue.
C19_NoDeviceNoEffect ==
    chat.n > 0 =>
        /\ IsNone(chat.intent.device) => IsNone(chat.candidate)
        /\ NoDeviceIdentified(chat.msg) => (IsNone(chat.executed) /\ ~chat.appended)

\* ------------------------------------------------------------------------
\* Claims C21 to C30.

\* The entities of a device list whose alias set has an alias inside the text
Matching(text, entities) ==
    {i \in 1..Len(entities) :
        Matches(BuildAliasCache(entities)[i], NormaliseText(text))}

HasEntity(entities, entity_id) ==
    \E i \in 1..Len(entities) : entities[i].entity_id = entity_id

\* C21: with the devices light.bedroom_lamp and switch.bedroom_fan_plug,
\* _extract_device("turn on the bedroom") returns light.bedroom_lamp; and
\* whenever entities match the text, the returned one is a matching entity
\* whose domain is first in the preference order among the matching ones.
C21_BedroomResolvesToTheLight ==
    call.fn = "_extract_device" =>
        /\ (/\ call.text = TurnOnTheBedroom
            /\ Len(call.entities) = 2
            /\ HasEntity(call.entities, BedroomLamp)
            /\ HasEntity(call.entities, BedroomFanPlug))
           => call.result = BedroomLamp
        /\ Matching(call.text, call.entities) # {} =>
              \E i \in Matching(call.text, call.entities) :
                 /\ call.result = call.entities[i].entity_id
                 /\ \A j \in Matching(call.text, call.entities) :
                       Priority(call.entities[i].entity_id)
                          <= Priority(call.entities[j].entity_id)

\* The second half of C21 alone.
C21_PreferredDomainWins ==
    (call.fn = "_extract_device" /\ Matching(call.text, call.entities) # {}) =>
        \E i \in Matching(call.text, call.entities) :
           /\ call.result = call.entities[i].entity_id
           /\ \A j \in Matching(call.text, call.entities) :
                 Priority(call.entities[i].entity_id)
                    <= Priority(call.entities[j].entity_id)

\* C22: in mock mode check_ha_connection returns true without contacting the
\* hub, whether or not a hub URL and an access token are configured.
C22_MockModeIsConnected ==
    (call.fn = "check_ha_connection" /\ call.mock_ha) =>
        (call.result.result /\ ~call.result.contacted)

\* In mock mode the hub is never contacted, and the answer is true exactly
\* when both a URL and a token are configured.
C22_MockModeNeedsConfiguration ==
    (call.fn = "check_ha_connection" /\ call.mock_ha) =>
        /\ ~call.result.contacted
        /\ call.result.result = (TruthyText(HaUrl(call.base_url)) /\ TruthyText(call.token))

\* apply(device, command) with action set_brightness has returned a state
AppliedSetBrightness ==
    /\ call.fn = "apply"
    /\ call.command.action = "set_brightness"
    /\ call.result.ok

\* C23: apply with action set_brightness returns a state whose power is on,
\* whatever the device's power was before, and whose brightness is the
\* requested value clamped to [0, 100].
C23_SetBrightnessForcesPowerOn ==
    AppliedSetBrightness =>
        /\ call.result.state.power = Some("on")
        /\ ~IsNone(call.command.brightness) =>
              call.result.state.brightness
                 = Some(Clamp(Val(call.command.brightness).val))

\* What set_brightness does to power: a power key that is present keeps its
\* value, a missing one becomes on; the brightness is clamped.
C23_SetBrightnessKeepsPower ==
    AppliedSetBrightness =>
        /\ call.result.state.power
              = (IF IsNone(call.state.power) THEN Some("on") ELSE call.state.power)
        /\ ~IsNone(call.result.state.brightness)
        /\ Val(call.result.state.brightness) \in 0..100

\* C24: the accessors of InMemoryDatabase copy on read and on write: whatever
\* a caller does to an object a get or list accessor returned, or to an object
\* it passed to an upsert, what the store returns for a record changes only in
\* a step that is an upsert (or a delete) of that record.
C24_StoreChangesOnlyByUpsert ==
    [][\A key \in CopyKeys :
          Returned(heap', table', key) # Returned(heap, table, key)
             => (dbOp'.op \in {"upsert", "delete"} /\ dbOp'.key = key)]_vars

\* A caller has passed a device to upsert_device and has then changed the
\* state inside its object, which now differs from what the store returns;
\* it also holds a copy an accessor returned
C24_Witness ==
    /\ dbOp.op = "mutate"
    /\ \E ref \in held :
          /\ dbOp.key = CopyKey(heap[ref].kind, heap[ref].id)
          /\ heap[ref].last_updated > 0
          /\ Value(heap, ref).content # Val(Returned(heap, table, dbOp.key)).content
          /\ \E other \in held : other # ref /\ heap[other].last_updated = 0

\* Calls i and i + 1 of control_lights name the same single room and the same
\* state, and the room was in the other state before call i
SameRoomTwice(i) ==
    LET first == lightLog[i]
        second == lightLog[i + 1]
        room == NormalizeRoom(first.room)
        state == NormalizeState(first.state)
    IN  /\ ~IsNone(room) /\ ~IsNone(state)
        /\ Val(room) \notin {"all", "none"}
        /\ NormalizeRoom(second.room) = room
        /\ NormalizeState(second.state) = state
        /\ first.before[Val(room)] # Val(state)

\* C25: control_lights called twice in a row with the same single room and
\* the same state, the room starting in the other state, answers SUCCESS and
\* then NO CHANGE, both answers carry the room and the state asked for, and
\* the room's stored state is the state asked for after each of the calls.
C25_SuccessThenNoChange ==
    \A i \in 1..(Len(lightLog) - 1) :
        SameRoomTwice(i) =>
            LET room == Val(NormalizeRoom(lightLog[i].room))
                state == Val(NormalizeState(lightLog[i].state))
                after == IF i + 1 = Len(lightLog) THEN lights ELSE lightLog[i + 2].before
            IN  /\ lightLog[i].response.status.words = "SUCCESS"
                /\ lightLog[i + 1].response.status.words = "NO CHANGE"
                /\ \A k \in {i, i + 1} :
                      /\ lightLog[k].response.room = Some(FormatRoomName(room))
                      /\ lightLog[k].response.current_state = Some(Upper(state))
                      /\ lightLog[k].response.success
                /\ lightLog[i + 1].before[room] = state
                /\ after[room] = state

\* The bedroom light, switched on by the first call, is switched off twice,
\* under two spellings of the room
C25_Witness ==
    /\ Len(lightLog) = 3
    /\ SameRoomTwice(2)
    /\ lightLog[2].room # lightLog[3].room
    /\ lightLog[2].before["bedroom"] = "on"

\* Every entry of the schedule document has a next_run_at that parses
AllParseable ==
    /\ \A i \in 1..Len(schedule.daily) :
          ~IsNone(ParseIsoDatetime(schedule.daily[i].next_run_at))
    /\ \A i \in 1..Len(schedule.queue) :
          ~IsNone(ParseIsoDatetime(schedule.queue[i].next_run_at))

\* C26: a tick at which no daily or queue entry is due, every entry having a
\* next_run_at that parses, does not write the schedule document: daily,
\* queue and updatedAt are what they were.
C26_IdleTickWritesNothing ==
    [][(clock' # clock /\ AllParseable /\ DueIds(clock') = {})
          => (schedule' = schedule /\ execs' = execs)]_vars

\* The latest tick found two daily entries and a queue entry, none of them
\* due, and the document still carries the time of an earlier write
C26_Witness ==
    /\ clock > 0
    /\ AllParseable
    /\ Len(schedule.daily) = 2 /\ Len(schedule.queue) > 0
    /\ DueIds(clock) = {}
    /\ ~IsNone(schedule.updatedAt)
    /\ Val(ParseIsoDatetime(schedule.updatedAt)) < clock
    /\ \A x \in execs : x.at < clock

\* The stored record of a command that is still on the scheduler's queue
\* says it was cancelled: DELETE /api/commands/{id} returned while the
\* command was PENDING
CancelledWhilePending(c) ==
    /\ \E i \in 1..Len(queue) : queue[i] = c
    /\ ~IsNone(commands[c])
    /\ Val(commands[c]).status = "failed"
    /\ Val(commands[c]).error = Some("Command cancelled by user")
    /\ ~Val(commands[c]).started_at

\* C27: a command cancelled through DELETE /api/commands/{id} while it is
\* PENDING on the queue is never executed afterwards: no worker takes it off
\* the queue and calls execute() for it.
C27_CancelledCommandNeverRuns ==
    [][\A c \in CmdIds :
          CancelledWhilePending(c) =>
              \A w \in WorkerIds : tasks'[w].cmd = c => tasks[w].cmd = c]_vars

\* The same over whole behaviours: once the stored record says the command
\* was cancelled while on the queue, execute() is never entered for it and
\* the record never becomes IN_PROGRESS or COMPLETED.
C27_CancelledRecordStaysFailed ==
    \A c \in CmdIds :
        [](CancelledWhilePending(c) =>
              [](/\ \A i \in 1..Len(startOrder) : startOrder[i] # c
                 /\ (IsNone(commands[c])
                     \/ Val(commands[c]).status \notin {"in_progress", "completed"})))

\* CommandStatus in lifecycle order
StatusRank(status) ==
    CASE status = "pending" -> 0
      [] status = "in_progress" -> 1
      [] status \in {"completed", "failed"} -> 2

\* C28: the stored status of a command only moves forward along PENDING,
\* IN_PROGRESS, then COMPLETED or FAILED (or from PENDING to FAILED when it is
\* cancelled), and a stored COMPLETED or FAILED never changes again.
C28_StatusOnlyMovesForward ==
    [][\A c \in CmdIds :
          ~IsNone(commands[c]) =>
              /\ ~IsNone(commands'[c])
              /\ StatusRank(Val(commands'[c]).status) >= StatusRank(Val(commands[c]).status)
              /\ Val(commands[c]).status \in {"completed", "failed"}
                    => Val(commands'[c]).status = Val(commands[c]).status]_vars

\* A call of stop() is under way
StopUnderWay == \E s \in StopIds : stops[s].pc = "awaiting"

\* C29: under a fair event loop, a command that queue_command has put on the
\* queue is executed in the end unless stop() is called later, whatever calls
\* of start, stop and enqueue came before.  (Nothing is claimed once every
\* worker task the model has was used.)
C29_AcceptedCommandIsExecuted ==
    \A c \in CmdIds :
        (\E i \in 1..Len(queue) : queue[i] = c)
           ~> (c \in Executed \/ StopUnderWay \/ FreeTasks = {})

\* The same when stop() is never called: every queued command is executed.
C29_ExecutedWithoutStop ==
    \A c \in CmdIds :
        (\E i \in 1..Len(queue) : queue[i] = c)
           ~> (c \in Executed \/ (\E s \in StopIds : stops[s].pc # "idle")
               \/ FreeTasks = {})

\* The same for a command accepted after the last stop() has returned.
C29_ExecutedAfterLastStop ==
    \A c \in CmdIds :
        []((/\ \A s \in StopIds : stops[s].pc = "done"
            /\ \A i \in 1..Len(putOrder) : putOrder[i] # c)
           => []((\E i \in 1..Len(queue) : queue[i] = c)
                    => <>(c \in Executed \/ FreeTasks = {})))

\* A scheduled command was executed in mock mode for an entity id that the
\* device cache does not hold
ExecutedForMissingEntity ==
    /\ call.fn = "execute_scheduled"
    /\ call.entity_id # ""
    /\ \A i \in 1..Len(call.cache) : call.cache[i].entity_id # call.entity_id

\* C30: in mock mode, executing a service for an entity id that is not in the
\* device cache reports failure, so that the scheduler runner keeps the queue
\* entry and reschedules it five minutes later; the cache is left as it was.
C30_MissingEntityIsRetried ==
    ExecutedForMissingEntity =>
        /\ ~call.result.success
        /\ call.result.cache = call.cache
        /\ call.processed.schedule.queue =
              <<[call.entry EXCEPT !.next_run_at = Some(IsoFormat(call.now + RetryDelay))]>>

\* What happens instead: success is reported with no entity and an error
\* text, the cache is left as it was, and the runner removes the entry.
C30_MissingEntityIsDropped ==
    ExecutedForMissingEntity =>
        /\ call.result.success
        /\ IsNone(call.result.entity)
        /\ call.result.error = Some("Mock entity not found")
        /\ call.result.cache = call.cache
        /\ call.processed.schedule.queue = <<>>

=============================================================================
